---------------------------- MODULE Spec2Model ----------------------------
(***************************************************************************)
(* A model of the Balsa random-forest engine:                              *)
(*   - LabelFrequencyTable            (Sources/datatools.h)                *)
(*   - IndexedDecisionTree            (Sources/indexeddecisiontree.h)      *)
(*   - DecisionTreeClassifier         (Sources/decisiontreeclassifier.h)   *)
(*   - EnsembleClassifier             (Sources/ensembleclassifier.h)       *)
(*                                                                         *)
(* Conventions.                                                            *)
(*   - assert() expands to nothing (NDEBUG).  It is the configuration in   *)
(*     which the sources compile: IndexedDecisionTree's assertions call    *)
(*     LabelFrequencyTable::invariant(), which datatools.h does not        *)
(*     define.  Caller preconditions stated by assertions are respected by *)
(*     the inputs the model draws.                                         *)
(*   - std::size_t counters are integers modulo 2^64.  A counter is        *)
(*     represented by its residue of least magnitude: -k stands for        *)
(*     2^64 - k.  Sums, differences and products of residues are exact     *)
(*     modulo 2^64 ((2^64 - k)^2 = k^2); unsigned comparison is ULess.     *)
(*   - Floating-point values are exact rationals [num, den], den > 0.      *)
(*   - C++ containers indexed from 0 are sequences indexed from 1:         *)
(*     m_data[l] is data[l + 1], m_nodes[id] is nodes[id + 1].             *)
(***************************************************************************)
EXTENDS Integers, Sequences, FiniteSets, TLC

VARIABLES
    lft,        \* SpecTable: the LabelFrequencyTable under test
    lftOut,     \* SpecTable: the last query made on it and its result
    pc,         \* where the training run is
    input,      \* the arguments of the IndexedDecisionTree constructor
    tree,       \* the IndexedDecisionTree
    twin,       \* SpecTwin: a second tree built from the same arguments
    classifier, \* the DecisionTreeClassifier
    out,        \* the last call made and its result
    ensemble,   \* SpecEnsemble: the EnsembleClassifier and its classifier stream
    callerTable, \* SpecEnsemble: the vote table handed to classifyAndVote
    workers,    \* SpecEnsemble: the WorkerThreads of classifyAndVoteMultiThreaded
    jobQueue,   \* SpecEnsemble: the MessageQueue<WorkerJob>
    earlier     \* SpecEnsemble: the result of the caller's earlier call of classify

tableVars == <<lft, lftOut>>

treeVars == <<pc, input, tree, twin, classifier, out>>

ensembleVars == <<ensemble, callerTable, workers, jobQueue, earlier>>

vars == <<lft, lftOut, pc, input, tree, twin, classifier, out,
          ensemble, callerTable, workers, jobQueue, earlier>>

(***************************************************************************)
(* Bounds of the model.                                                    *)
(***************************************************************************)
MaxLabel == 2        \* labels are 0..MaxLabel
MaxTotal == 4        \* cap on the number of counted labels in SpecTable
MaxValue == 1        \* feature values are 0..MaxValue
MaxClass == 1        \* training labels are 0..MaxClass
MaxPoints == 3       \* training sets hold 1..MaxPoints points
MaxFeatures == 2     \* points have 1..MaxFeatures features
MaxSeed == 1         \* coin seeds are 0..MaxSeed

Labels == 0..MaxLabel

(***************************************************************************)
(* Rationals standing for the floating-point values.                       *)
(***************************************************************************)
Rat(n, d) == [num |-> n, den |-> d]

RatLess(a, b) == a.num * b.den < b.num * a.den

RatLeq(a, b) == a.num * b.den <= b.num * a.den

RatEq(a, b) == a.num * b.den = b.num * a.den

\* Unsigned comparison of two size_t residues: a < b as the machine sees it.
ULess(a, b) ==
    IF (a >= 0) = (b >= 0) THEN a < b ELSE a >= 0

RECURSIVE SumSeq(_)
SumSeq(s) == IF s = << >> THEN 0 ELSE Head(s) + SumSeq(Tail(s))

Zeros(n) == [i \in 1..n |-> 0]

(***************************************************************************)
(* LabelFrequencyTable (datatools.h).                                      *)
(***************************************************************************)
\* LabelFrequencyTable( Label exclusiveUpperLimit )
LabelFrequencyTable(exclusiveUpperLimit) ==
    [data |-> Zeros(exclusiveUpperLimit), total |-> 0]

\* One iteration of the counting loop of the range constructor.
\* std::valarray::resize assigns the default value to every element, so the
\* counts gathered before a resize are dropped.
CountLabel(data, label) ==
    LET grown == IF label >= Len(data) THEN Zeros(label + 1) ELSE data
    IN  [grown EXCEPT ![label + 1] = @ + 1]

RECURSIVE CountLabels(_, _)
CountLabels(data, labels) ==
    IF labels = << >> THEN data
    ELSE CountLabels(CountLabel(data, Head(labels)), Tail(labels))

\* LabelFrequencyTable( labelBegin, labelEnd )
LabelFrequencyTableFromRange(labels) ==
    [data |-> CountLabels(<< >>, labels), total |-> Len(labels)]

increment(t, label) ==
    [data |-> [t.data EXCEPT ![label + 1] = @ + 1], total |-> t.total + 1]

decrement(t, label) ==
    [data |-> [t.data EXCEPT ![label + 1] = @ - 1], total |-> t.total - 1]

getCount(t, label) == t.data[label + 1]

getTotal(t) == t.total

size(t) == Len(t.data)

\* squaredCounts.sum()
SquaredCountsSum(t) == SumSeq([i \in 1..Len(t.data) |-> t.data[i] * t.data[i]])

\* giniImpurity<FloatType>():  1.0 - sum / m_total
giniImpurity(t) == Rat(t.total - SquaredCountsSum(t), t.total)

\* The scan of getMostFrequentLabel from label l on, with the best label and
\* best count found so far.
RECURSIVE MostFrequentScan(_, _, _, _)

\* Mutant: "if ( m_data[l] < bestCount ) continue;", the last of the most
\* frequent labels wins.
MostFrequentScanLast(t, l, best, bestCount) ==
    IF ~(l < Len(t.data)) THEN best
    ELSE IF ULess(t.data[l + 1], bestCount)
         THEN MostFrequentScan(t, l + 1, best, bestCount)
         ELSE MostFrequentScan(t, l + 1, l, t.data[l + 1])

MostFrequentScan(t, l, best, bestCount) ==
    IF ~(l < Len(t.data)) THEN best
    ELSE IF ~ULess(bestCount, t.data[l + 1])
         THEN MostFrequentScan(t, l + 1, best, bestCount)
         ELSE MostFrequentScan(t, l + 1, l, t.data[l + 1])

getMostFrequentLabel(t) == MostFrequentScan(t, 0, 0, 0)

(***************************************************************************)
(* Feature values.  The feature type is a floating-point type; NaN is the  *)
(* one value every ordered comparison with which is false.                 *)
(***************************************************************************)
Values == 0..MaxValue

\* A number outside every range of feature values stands for NaN.
NaN == 0 - 1

isnan(v) == v = NaN

\* operator< of the feature type
FLess(a, b) == ~isnan(a) /\ ~isnan(b) /\ a < b

\* Split( feature, value )
Split(feature, value) == [feature |-> feature, value |-> value]

(***************************************************************************)
(* WeightedCoin (weightedcoin.h): flip( k, n ) is true with probability    *)
(* k / n, certainly true when k = n and certainly false when k = 0.  The   *)
(* coin is a seeded pseudorandom generator: a linear congruential one      *)
(* here, flip drawing u in [0, 1) and answering u * n < k.                 *)
(***************************************************************************)
CoinModulus == 16

CoinMultiplier == 5

CoinIncrement == 3

\* The state of a default-constructed coin.
WeightedCoin == 0

\* seed( value )
CoinSeed(coin, value) == value % CoinModulus

\* flip( k, n ): the answer and the state of the coin after the flip.
flip(coin, k, n) ==
    LET next == (coin * CoinMultiplier + CoinIncrement) % CoinModulus
    IN  [result |-> (next * n) \div CoinModulus < k, coin |-> next]

(***************************************************************************)
(* IndexedDecisionTree (indexeddecisiontree.h).                            *)
(***************************************************************************)
\* FeatureIndexEntry( featureValue, pointID, label )
FeatureIndexEntry(featureValue, pointID, label) ==
    [featureValue |-> featureValue, pointID |-> pointID, label |-> label]

\* FeatureIndexEntry::operator<
EntryLess(a, b) == FLess(a.featureValue, b.featureValue)

\* dataPoints[point * featureCount + feature]
At(dataPoints, i) == dataPoints[i + 1]

\* Mutant: "dataPoints[point + feature]", the row stride left out.
EmittedEntriesUnscaled(dataPoints, labels, featureCount, pointCount, feature) ==
    [i \in 1..pointCount |->
        FeatureIndexEntry(At(dataPoints, (i - 1) + feature),
                          i - 1, At(labels, i - 1))]

\* The entries of one feature in the order the constructor emits them.
EmittedEntries(dataPoints, labels, featureCount, pointCount, feature) ==
    [i \in 1..pointCount |->
        FeatureIndexEntry(At(dataPoints, (i - 1) * featureCount + feature),
                          i - 1, At(labels, i - 1))]

IsSortedIndex(index) ==
    \A i \in 1..(Len(index) - 1) : ~EntryLess(index[i + 1], index[i])

\* A sort that leaves the entries in the order they were emitted in
SortOutcomesAsEmitted(entries) == {entries}

\* std::sort( begin, end ): the order of equivalent entries is unspecified, so
\* every sorted arrangement of the entries is an outcome.
SortOutcomes(entries) ==
    {index \in {[i \in 1..Len(entries) |-> entries[perm[i]]] :
                    perm \in Permutations(1..Len(entries))} :
        IsSortedIndex(index)}

RECURSIVE SeqProduct(_)
SeqProduct(sets) ==
    IF sets = << >> THEN {<< >>}
    ELSE {<<h>> \o t : h \in Head(sets), t \in SeqProduct(Tail(sets))}

\* The feature indices the constructor's loop can build.
FeatureIndexOutcomes(dataPoints, labels, featureCount, pointCount) ==
    SeqProduct([f \in 1..featureCount |->
        SortOutcomes(EmittedEntries(dataPoints, labels, featureCount, pointCount, f - 1))])

\* Mutant: the value is read at index "point" instead of
\* "point * featureCount + feature", so only the first cells are tested.
HasNaNInFirstCells(dataPoints, featureCount, pointCount) ==
    \E i \in 1..pointCount : isnan(dataPoints[i])

\* The constructor's test for NaN, over every cell it reads.
HasNaN(dataPoints, featureCount, pointCount) ==
    \E i \in 1..(pointCount * featureCount) : isnan(dataPoints[i])

\* Node( labelCounts, indexOffset, distanceToRoot )
Node(labelCounts, indexOffset, distanceToRoot) ==
    [leftChild      |-> 0,
     rightChild     |-> 0,
     indexOffset    |-> indexOffset,
     split          |-> Split(0, 0),
     distanceToRoot |-> distanceToRoot,
     labelCounts    |-> labelCounts,
     label          |-> getMostFrequentLabel(labelCounts)]

isLeafNode(node) == node.leftChild = 0

getPointCount(node) == getTotal(node.labelCounts)

\* Node::setSplit recording the left child id for both children.
setSplitBothLeft(node, split, leftNodeID, rightNodeID) ==
    [node EXCEPT !.split = split, !.leftChild = leftNodeID, !.rightChild = leftNodeID]

\* Node::setSplit
setSplit(node, split, leftNodeID, rightNodeID) ==
    [node EXCEPT !.split = split, !.leftChild = leftNodeID, !.rightChild = rightNodeID]

\* m_nodes[nodeID]
NodeAt(t, nodeID) == t.nodes[nodeID + 1]

\* std::numeric_limits<FeatureType>::max(), above every impurity.
FloatMax == Rat(1000000, 1)

\* SplitCandidate(): an invalid split
InvalidSplitCandidate ==
    [split       |-> Split(0, 0),
     leftCounts  |-> LabelFrequencyTable(0),
     rightCounts |-> LabelFrequencyTable(0),
     impurity    |-> FloatMax]

\* SplitCandidate( split, leftCounts, rightCounts )
SplitCandidate(split, leftCounts, rightCounts) ==
    LET leftCount     == getTotal(leftCounts)
        rightCount    == getTotal(rightCounts)
        totalCount    == leftCount + rightCount
        leftImpurity  == giniImpurity(leftCounts)
        rightImpurity == giniImpurity(rightCounts)
    IN  [split       |-> split,
         leftCounts  |-> leftCounts,
         rightCounts |-> rightCounts,
         impurity    |->
            Rat(leftImpurity.num * leftCount * rightImpurity.den
                    + rightImpurity.num * rightCount * leftImpurity.den,
                leftImpurity.den * rightImpurity.den * totalCount)]

\* SplitCandidate::isValid
isValid(candidate) == RatLeq(candidate.impurity, Rat(1, 1))

\* Mutant: "<" for "<=" in the comparison with the threshold.
isGrowableNodeStrict(t, nodeID) ==
    LET node == NodeAt(t, nodeID)
    IN  IF node.distanceToRoot >= t.maximumDistanceToRoot THEN FALSE
        ELSE IF RatLess(giniImpurity(node.labelCounts), t.impurityThreshold) THEN FALSE
        ELSE TRUE

\* isGrowableNode( nodeID )
isGrowableNode(t, nodeID) ==
    LET node == NodeAt(t, nodeID)
    IN  IF node.distanceToRoot >= t.maximumDistanceToRoot THEN FALSE
        ELSE IF RatLeq(giniImpurity(node.labelCounts), t.impurityThreshold) THEN FALSE
        ELSE TRUE

\* Mutant: the test for the end of a block of equal values left out, a
\* candidate is weighed at every entry after the first.
ScanEntryInsideBlocks(featureID, it, s) ==
    LET possibleSplit == SplitCandidate(Split(featureID, it.featureValue), s.left, s.right)
    IN  [bestSplit |->
            IF /\ getTotal(s.left) > 0
               /\ RatLess(possibleSplit.impurity, s.bestSplit.impurity)
            THEN possibleSplit
            ELSE s.bestSplit,
         currentBlockValue |-> it.featureValue,
         left              |-> increment(s.left, it.label),
         right             |-> decrement(s.right, it.label)]

\* Mutant: the comparison with the best impurity left out, the last candidate
\* of the scan wins.
ScanEntryTakesLast(featureID, it, s) ==
    LET possibleSplit == SplitCandidate(Split(featureID, it.featureValue), s.left, s.right)
    IN  [bestSplit |->
            IF FLess(s.currentBlockValue, it.featureValue)
            THEN possibleSplit
            ELSE s.bestSplit,
         currentBlockValue |-> it.featureValue,
         left              |-> increment(s.left, it.label),
         right             |-> decrement(s.right, it.label)]

\* The iteration with "<=" for "<": a candidate of equal impurity replaces
\* the best split.
ScanEntryReplacesOnTie(featureID, it, s) ==
    LET possibleSplit == SplitCandidate(Split(featureID, it.featureValue), s.left, s.right)
    IN  [bestSplit |->
            IF /\ FLess(s.currentBlockValue, it.featureValue)
               /\ RatLeq(possibleSplit.impurity, s.bestSplit.impurity)
            THEN possibleSplit
            ELSE s.bestSplit,
         currentBlockValue |-> it.featureValue,
         left              |-> increment(s.left, it.label),
         right             |-> decrement(s.right, it.label)]

\* One iteration of the scan of findBestSplitForFeature, at entry `it`; s holds
\* bestSplit, currentBlockValue and the two running label counts.
ScanEntry(featureID, it, s) ==
    LET possibleSplit == SplitCandidate(Split(featureID, it.featureValue), s.left, s.right)
    IN  [bestSplit |->
            IF /\ FLess(s.currentBlockValue, it.featureValue)
               /\ RatLess(possibleSplit.impurity, s.bestSplit.impurity)
            THEN possibleSplit
            ELSE s.bestSplit,
         currentBlockValue |-> it.featureValue,
         left              |-> increment(s.left, it.label),
         right             |-> decrement(s.right, it.label)]

RECURSIVE ScanEntries(_, _, _, _, _)
ScanEntries(index, featureID, it, end, s) ==
    IF it = end THEN s
    ELSE ScanEntries(index, featureID, it + 1, end, ScanEntry(featureID, At(index, it), s))

\* findBestSplitForFeature( node, featureID, minimalBestSplit )
findBestSplitForFeature(t, node, featureID, minimalBestSplit) ==
    LET index == t.featureIndex[featureID + 1]
        begin == node.indexOffset
        end   == begin + getPointCount(node)
    IN  ScanEntries(index, featureID, begin, end,
            [bestSplit         |-> minimalBestSplit,
             currentBlockValue |-> At(index, begin).featureValue,
             left              |-> LabelFrequencyTable(size(node.labelCounts)),
             right             |-> node.labelCounts]).bestSplit

\* The first loop of findBestSplit from feature s.featureID on; s holds the
\* loop variables and the coin.
RECURSIVE ScanChosenFeatures(_, _, _)
ScanChosenFeatures(t, node, s) ==
    IF ~(s.featureID < t.featureCount) THEN s
    ELSE LET featuresLeft == t.featureCount - s.featureID
             coin         == flip(s.coin, s.featuresToScan, featuresLeft)
         IN  IF ~coin.result
             THEN ScanChosenFeatures(t, node,
                    [s EXCEPT !.featureID = @ + 1,
                              !.skippedFeatures = Append(@, s.featureID),
                              !.coin = coin.coin])
             ELSE ScanChosenFeatures(t, node,
                    [s EXCEPT !.featureID = @ + 1,
                              !.featuresToScan = @ - 1,
                              !.bestSplit =
                                  findBestSplitForFeature(t, node, s.featureID, s.bestSplit),
                              !.coin = coin.coin])

\* The second loop without its return at the first valid split: every
\* skipped feature is scanned.
RECURSIVE ScanSkippedFeaturesToTheEnd(_, _, _, _)
ScanSkippedFeaturesToTheEnd(t, node, skippedFeatures, bestSplit) ==
    IF skippedFeatures = << >> THEN bestSplit
    ELSE ScanSkippedFeaturesToTheEnd(t, node, Tail(skippedFeatures),
             findBestSplitForFeature(t, node, Head(skippedFeatures), bestSplit))

\* The second loop of findBestSplit, over the features skipped by the first.
RECURSIVE ScanSkippedFeatures(_, _, _, _)
ScanSkippedFeatures(t, node, skippedFeatures, bestSplit) ==
    IF skippedFeatures = << >> THEN bestSplit
    ELSE LET found == findBestSplitForFeature(t, node, Head(skippedFeatures), bestSplit)
         IN  IF isValid(found) THEN found
             ELSE ScanSkippedFeatures(t, node, Tail(skippedFeatures), found)

\* findBestSplit( node ): the split returned and the coin after its flips.
findBestSplit(t, nodeID) ==
    LET node == NodeAt(t, nodeID)
        s    == ScanChosenFeatures(t, node,
                    [featureID       |-> 0,
                     featuresToScan  |-> t.featuresToConsider,
                     skippedFeatures |-> << >>,
                     bestSplit       |-> InvalidSplitCandidate,
                     coin            |-> t.coin])
    IN  [split |-> IF isValid(s.bestSplit) THEN s.bestSplit
                   ELSE ScanSkippedFeatures(t, node, s.skippedFeatures, s.bestSplit),
         coin  |-> s.coin]

\* Mutant: std::partition for std::stable_partition; the entries of the right
\* side come out in reverse order.
PartitionSliceUnstable(dataPoints, featureCount, index, first, count, split) ==
    LET Left(entry) ==
            FLess(At(dataPoints, entry.pointID * featureCount + split.feature), split.value)
        Right(entry) == ~Left(entry)
        slice == SubSeq(index, first + 1, first + count)
        right == SelectSeq(slice, Right)
    IN  SubSeq(index, 1, first)
            \o SelectSeq(slice, Left) \o [i \in 1..Len(right) |-> right[Len(right) + 1 - i]]
            \o SubSeq(index, first + count + 1, Len(index))

\* std::stable_partition of index[first + 1 .. first + count] by "the point
\* lies left of the split".
PartitionSlice(dataPoints, featureCount, index, first, count, split) ==
    LET Left(entry) ==
            FLess(At(dataPoints, entry.pointID * featureCount + split.feature), split.value)
        Right(entry) == ~Left(entry)
        slice == SubSeq(index, first + 1, first + count)
    IN  SubSeq(index, 1, first)
            \o SelectSeq(slice, Left) \o SelectSeq(slice, Right)
            \o SubSeq(index, first + count + 1, Len(index))

\* The growable ones of the given new leaves, in order.
RECURSIVE GrowableOf(_, _)
GrowableOf(t, nodeIDs) ==
    IF nodeIDs = << >> THEN << >>
    ELSE (IF isGrowableNode(t, Head(nodeIDs)) THEN <<Head(nodeIDs)>> ELSE << >>)
             \o GrowableOf(t, Tail(nodeIDs))

\* splitNode that gives the right child the index offset of the parent
splitNodeRightAtParentOffset(t, nodeID, splitCandidate) ==
    LET node         == NodeAt(t, nodeID)
        split        == splitCandidate.split
        featureIndex ==
            [f \in 1..Len(t.featureIndex) |->
                IF f - 1 = split.feature THEN t.featureIndex[f]
                ELSE PartitionSlice(t.dataPoints, t.featureCount, t.featureIndex[f],
                                    node.indexOffset, getPointCount(node), split)]
        leftChildID  == Len(t.nodes)
        rightChildID == leftChildID + 1
        leftChild    == Node(splitCandidate.leftCounts, node.indexOffset,
                             node.distanceToRoot + 1)
        rightChild   == Node(splitCandidate.rightCounts, node.indexOffset,
                             node.distanceToRoot + 1)
        nodes        == [t.nodes EXCEPT ![nodeID + 1] =
                            setSplit(node, split, leftChildID, rightChildID)]
                            \o <<leftChild, rightChild>>
        grown        == [t EXCEPT !.featureIndex = featureIndex, !.nodes = nodes]
    IN  [grown EXCEPT !.growableLeaves =
            @ \o GrowableOf(grown, <<leftChildID, rightChildID>>)]

\* splitNode( nodeID, splitCandidate )
splitNode(t, nodeID, splitCandidate) ==
    LET node         == NodeAt(t, nodeID)
        split        == splitCandidate.split
        featureIndex ==
            [f \in 1..Len(t.featureIndex) |->
                IF f - 1 = split.feature THEN t.featureIndex[f]
                ELSE PartitionSlice(t.dataPoints, t.featureCount, t.featureIndex[f],
                                    node.indexOffset, getPointCount(node), split)]
        leftChildID  == Len(t.nodes)
        rightChildID == leftChildID + 1
        leftChild    == Node(splitCandidate.leftCounts, node.indexOffset,
                             node.distanceToRoot + 1)
        rightChild   == Node(splitCandidate.rightCounts,
                             node.indexOffset + getTotal(splitCandidate.leftCounts),
                             node.distanceToRoot + 1)
        nodes        == [t.nodes EXCEPT ![nodeID + 1] =
                            setSplit(node, split, leftChildID, rightChildID)]
                            \o <<leftChild, rightChild>>
        grown        == [t EXCEPT !.featureIndex = featureIndex, !.nodes = nodes]
    IN  [grown EXCEPT !.growableLeaves =
            @ \o GrowableOf(grown, <<leftChildID, rightChildID>>)]

\* growLeaf( nodeID )
growLeaf(t, nodeID) ==
    LET found  == findBestSplit(t, nodeID)
        tossed == [t EXCEPT !.coin = found.coin]
    IN  IF isValid(found.split) THEN splitNode(tossed, nodeID, found.split) ELSE tossed

\* isGrowable()
isGrowable(t) == Len(t.growableLeaves) > 0

\* growNextLeaf() that puts a leaf it could not split back on the queue.
growNextLeafRequeues(t) ==
    LET leaf  == Head(t.growableLeaves)
        grown == growLeaf([t EXCEPT !.growableLeaves = Tail(@)], leaf)
    IN  IF isLeafNode(NodeAt(grown, leaf))
        THEN [grown EXCEPT !.growableLeaves = Append(@, leaf)]
        ELSE grown

\* growNextLeaf()
growNextLeaf(t) ==
    LET leaf == Head(t.growableLeaves)
    IN  growLeaf([t EXCEPT !.growableLeaves = Tail(@)], leaf)

\* The constructor, given the feature index its sorting loop built.
IndexedDecisionTree(dataPoints, labels, featureCount, pointCount, featuresToConsider, maximumDistanceToRoot, impurityThreshold, featureIndex) ==
    LET labelCounts == LabelFrequencyTableFromRange(SubSeq(labels, 1, pointCount))
        t == [dataPoints             |-> dataPoints,
              pointCount             |-> pointCount,
              featureCount           |-> featureCount,
              growableLeaves         |-> << >>,
              nodes                  |-> <<Node(labelCounts, 0, 0)>>,
              featureIndex           |-> featureIndex,
              coin                   |-> WeightedCoin,
              featuresToConsider     |-> featuresToConsider,
              maximumDistanceToRoot  |-> maximumDistanceToRoot,
              impurityThreshold      |-> impurityThreshold]
    IN  [t EXCEPT !.growableLeaves = GrowableOf(t, <<0>>)]

\* seed( value )
seed(t, value) == [t EXCEPT !.coin = CoinSeed(@, value)]

\* getClassCount()
getClassCount(t) == size(NodeAt(t, 0).labelCounts)

\* Mutant: the two child columns filled from each other's child.
getDecisionTreeChildrenSwapped(t) ==
    [classCount     |-> getClassCount(t),
     featureCount   |-> t.featureCount,
     leftChildID    |-> [n \in 1..Len(t.nodes) |-> t.nodes[n].rightChild],
     rightChildID   |-> [n \in 1..Len(t.nodes) |-> t.nodes[n].leftChild],
     splitFeatureID |-> [n \in 1..Len(t.nodes) |-> t.nodes[n].split.feature],
     splitValue     |-> [n \in 1..Len(t.nodes) |-> t.nodes[n].split.value],
     label          |-> [n \in 1..Len(t.nodes) |-> t.nodes[n].label]]

\* getDecisionTree(): the five tables of the flat classifier.
getDecisionTree(t) ==
    [classCount     |-> getClassCount(t),
     featureCount   |-> t.featureCount,
     leftChildID    |-> [n \in 1..Len(t.nodes) |-> t.nodes[n].leftChild],
     rightChildID   |-> [n \in 1..Len(t.nodes) |-> t.nodes[n].rightChild],
     splitFeatureID |-> [n \in 1..Len(t.nodes) |-> t.nodes[n].split.feature],
     splitValue     |-> [n \in 1..Len(t.nodes) |-> t.nodes[n].split.value],
     label          |-> [n \in 1..Len(t.nodes) |-> t.nodes[n].label]]

(***************************************************************************)
(* VoteTable (table.h): a grid of counters, one row per point and one      *)
(* column per class.                                                       *)
(***************************************************************************)
\* VoteTable( rowCount, columnCount ): all counters zero
VoteTable(rowCount, columnCount) ==
    [row \in 1..rowCount |-> [column \in 1..columnCount |-> 0]]

\* ++voteTable( row, column )
AddVote(table, row, column) ==
    [table EXCEPT ![row + 1] = [@ EXCEPT ![column + 1] = @ + 1]]

\* The scan for the row maximum from column c on: the first column holding
\* the highest count wins.
RECURSIVE RowMaximumScan(_, _, _)
RowMaximumScan(counts, c, best) ==
    IF c > Len(counts) THEN best
    ELSE RowMaximumScan(counts, c + 1, IF counts[c] > counts[best] THEN c ELSE best)

\* getColumnOfRowMaximum( row )
getColumnOfRowMaximum(table, row) == RowMaximumScan(table[row + 1], 1, 1) - 1

(***************************************************************************)
(* DecisionTreeClassifier (decisiontreeclassifier.h).  A classifier is the *)
(* record of its five tables, class count and feature count.               *)
(***************************************************************************)
\* m_leftChildID( nodeID, 0 ) and the like
Cell(column, nodeID) == column[nodeID + 1]

RECURSIVE VoteForAll(_, _, _)
VoteForAll(voteTable, pointIDs, label) ==
    IF pointIDs = << >> THEN voteTable
    ELSE VoteForAll(AddVote(voteTable, Head(pointIDs), label), Tail(pointIDs), label)

\* recursiveClassifyVote( pointIDsStart, pointIDsEnd, pointsStart, voteTable,
\* currentNodeID ), pointIDs being the slice [pointIDsStart, pointIDsEnd).
\* std::partition leaves the order inside each half unspecified; the halves
\* are only ever read as collections of point ids.
\* Mutant: "<=" for "<" in the lambda, so that points on the split value go
\* left.
pointIsNotAboveLimit(c, pointsStart, featureID, splitValue, pointID) ==
    LET value == At(pointsStart, c.featureCount * pointID + featureID)
    IN  FLess(value, splitValue) \/ value = splitValue

\* The lambda pointIsBelowLimit of recursiveClassifyVote.
pointIsBelowLimit(c, pointsStart, featureID, splitValue, pointID) ==
    FLess(At(pointsStart, c.featureCount * pointID + featureID), splitValue)

RECURSIVE recursiveClassifyVote(_, _, _, _, _)
recursiveClassifyVote(c, pointIDs, pointsStart, voteTable, currentNodeID) ==
    IF Cell(c.leftChildID, currentNodeID) > 0
    THEN LET splitValue == Cell(c.splitValue, currentNodeID)
             featureID  == Cell(c.splitFeatureID, currentNodeID)
             Below(pointID) ==
                 pointIsBelowLimit(c, pointsStart, featureID, splitValue, pointID)
             NotBelow(pointID) == ~Below(pointID)
             firstHalf  == SelectSeq(pointIDs, Below)
             secondHalf == SelectSeq(pointIDs, NotBelow)
             leftVoted  == recursiveClassifyVote(c, firstHalf, pointsStart, voteTable,
                                                 Cell(c.leftChildID, currentNodeID))
         IN  recursiveClassifyVote(c, secondHalf, pointsStart, leftVoted,
                                   Cell(c.rightChildID, currentNodeID))
    ELSE VoteForAll(voteTable, pointIDs, Cell(c.label, currentNodeID))

\* DecisionTreeClassifier::classifyAndVote( pointsStart, pointsEnd, table ),
\* points being the values in [pointsStart, pointsEnd): whether it threw
\* ClientError, the table it leaves and the count it returns.
\* classifyAndVote that takes the batch without points for a malformed one
classifyAndVoteRejectsEmpty(c, points, table) ==
    LET entryCount == Len(points)
        pointCount == entryCount \div c.featureCount
        pointIDs   == [i \in 1..pointCount |-> i - 1]
    IN  IF entryCount % c.featureCount # 0 \/ entryCount = 0
        THEN [error |-> "ClientError", table |-> table, voters |-> 0]
        ELSE [error  |-> "none",
              table  |-> recursiveClassifyVote(c, pointIDs, points, table, 0),
              voters |-> 1]

classifyAndVote(c, points, table) ==
    LET entryCount == Len(points)
        pointCount == entryCount \div c.featureCount
        pointIDs   == [i \in 1..pointCount |-> i - 1]
    IN  IF entryCount % c.featureCount # 0
        THEN [error |-> "ClientError", table |-> table, voters |-> 0]
        ELSE [error  |-> "none",
              table  |-> recursiveClassifyVote(c, pointIDs, points, table, 0),
              voters |-> 1]

\* Mutant: getColumnOfRowMaximum( 0 ) for every point.
LabelsOfVotesOfFirstRow(voteCounts, pointCount) ==
    [point \in 1..pointCount |-> getColumnOfRowMaximum(voteCounts, 0)]

\* The labels classify writes from the vote counts, one per point.
LabelsOfVotes(voteCounts, pointCount) ==
    [point \in 1..pointCount |-> getColumnOfRowMaximum(voteCounts, point - 1)]

\* DecisionTreeClassifier::classify( pointsStart, pointsEnd, labelsStart ):
\* whether it threw ClientError and the labels it wrote.
classify(c, points) ==
    LET entryCount == Len(points)
        pointCount == entryCount \div c.featureCount
        voted      == classifyAndVote(c, points, VoteTable(pointCount, c.classCount))
    IN  IF entryCount % c.featureCount # 0
        THEN [error |-> "ClientError", labels |-> << >>]
        ELSE [error |-> "none", labels |-> LabelsOfVotes(voted.table, pointCount)]

(***************************************************************************)
(* Values that stand for "no object".                                      *)
(***************************************************************************)
NoQuery == [op |-> "none"]

NoInput == [pointCount |-> 0]

NoTree == [nodes |-> << >>, growableLeaves |-> << >>]

NoClassifier == [classCount |-> 0]

NoCall == [op |-> "none"]

NoEnsemble == [classifiers |-> << >>]

NoTable == << >>

NoWorkers == << >>

EmptyQueue == << >>

(***************************************************************************)
(* VoteTable operations the ensemble uses (table.h).                       *)
(***************************************************************************)
\* table += other: cell by cell, for tables of one shape
TableAdd(table, other) ==
    [row \in 1..Len(table) |->
        [column \in 1..Len(table[row]) |-> table[row][column] + other[row][column]]]

\* The scan for the weighted row maximum from column c on: counts are
\* multiplied by the weights before they are compared, the first column
\* holding the highest product wins.
RECURSIVE WeightedRowMaximumScan(_, _, _, _)
WeightedRowMaximumScan(counts, weights, c, best) ==
    IF c > Len(counts) THEN best
    ELSE WeightedRowMaximumScan(counts, weights, c + 1,
            IF counts[c] * weights[c] > counts[best] * weights[best] THEN c ELSE best)

\* getColumnOfWeightedRowMaximum( row, weights )
getColumnOfWeightedRowMaximum(table, row, weights) ==
    WeightedRowMaximumScan(table[row + 1], weights, 1, 1) - 1

(***************************************************************************)
(* MessageQueue<WorkerJob> (messagequeue.h): a thread-safe queue, first    *)
(* in first out; receive() blocks while the queue is empty.                *)
(***************************************************************************)
\* send( message )
send(queue, message) == Append(queue, message)

\* receive() can return
CanReceive(queue) == queue # << >>

\* receive(): the message returned and the queue left
receive(queue) == [message |-> Head(queue), queue |-> Tail(queue)]

(***************************************************************************)
(* ClassifierInputStream (classifierstream.h): the ensemble record holds   *)
(* the stream's classifiers and its read position.                         *)
(***************************************************************************)
\* rewind()
\* rewind() that leaves the stream where it is
rewindLeavesPosition(e) == e

rewind(e) == [e EXCEPT !.position = 0]

\* next() returns a classifier, not an empty pointer
HasNext(e) == e.position < Len(e.classifiers)

\* next(): the classifier returned and the stream after the call
next(e) ==
    [classifier |-> e.classifiers[e.position + 1],
     stream     |-> [e EXCEPT !.position = @ + 1]]

(***************************************************************************)
(* EnsembleClassifier (ensembleclassifier.h).                              *)
(***************************************************************************)
\* EnsembleClassifier( classifierStream, maxWorkerThreads ): weights all 1
EnsembleClassifier(classifiers, position, classCount, featureCount, maxWorkerThreads) ==
    [classifiers      |-> classifiers,
     position         |-> position,
     classCount       |-> classCount,
     featureCount     |-> featureCount,
     maxWorkerThreads |-> maxWorkerThreads,
     classWeights     |-> [c \in 1..classCount |-> 1]]

\* setClassWeights( classWeights )
setClassWeights(e, classWeights) == [e EXCEPT !.classWeights = classWeights]

\* WorkerJob( classifier )
WorkerJob(c) == [classifier |-> c]

\* WorkerJob( nullptr ), which ends a worker
NullJob == WorkerJob(NoClassifier)

\* WorkerThread( jobQueue, classCount, featureCount, pointsStart, pointsEnd )
WorkerThread(classCount, featureCount, points) ==
    [running    |-> FALSE,
     state      |-> "created",
     job        |-> NullJob,
     voteCounts |-> VoteTable(Len(points) \div featureCount, classCount)]

\* The loop of classifyAndVoteSingleThreaded over the classifiers the stream
\* still holds: whether a classifier threw, the table, the voter count and
\* the stream left.
RECURSIVE SingleThreadedLoop(_, _, _, _)
SingleThreadedLoop(e, points, table, voterCount) ==
    IF ~HasNext(e)
    THEN [error |-> "none", table |-> table, voters |-> voterCount, stream |-> e]
    ELSE LET got   == next(e)
             voted == classifyAndVote(got.classifier, points, table)
         IN  IF voted.error # "none"
             THEN [error |-> voted.error, table |-> voted.table,
                   voters |-> voterCount, stream |-> got.stream]
             ELSE SingleThreadedLoop(got.stream, points, voted.table, voterCount + 1)

\* classifyAndVoteSingleThreaded( pointsStart, pointsEnd, table )
classifyAndVoteSingleThreaded(e, points, table) ==
    SingleThreadedLoop(rewind(e), points, table, 0)

\* Mutant: only the first worker's votes are added.
MergeVoteCountsOfFirst(table, threads) ==
    IF threads = << >> THEN table ELSE TableAdd(table, Head(threads).voteCounts)

\* for ( auto & worker : workers ) table += worker->getVoteCounts();
RECURSIVE MergeVoteCounts(_, _)
MergeVoteCounts(table, threads) ==
    IF threads = << >> THEN table
    ELSE MergeVoteCounts(TableAdd(table, Head(threads).voteCounts), Tail(threads))

\* Mutant: the unweighted row maximum.
EnsembleLabelsUnweighted(voteCounts, pointCount, classWeights) ==
    [point \in 1..pointCount |-> getColumnOfRowMaximum(voteCounts, point - 1)]

\* The labels EnsembleClassifier::classify writes from the vote counts.
EnsembleLabelsOfVotes(voteCounts, pointCount, classWeights) ==
    [point \in 1..pointCount |->
        getColumnOfWeightedRowMaximum(voteCounts, point - 1, classWeights)]

(***************************************************************************)
(* SpecTree: one training run.  A tree is constructed from a training set, *)
(* seeded, grown leaf by leaf until no leaf is growable, converted to a    *)
(* DecisionTreeClassifier, and the classifier classifies the training set. *)
(***************************************************************************)
\* std::numeric_limits<unsigned int>::max(), the default maximum depth.  Depths
\* are only compared with it; the value is the largest the checker holds.
UnlimitedDepth == 2147483647

Classes == 0..MaxClass

MaximumDepths == {1, UnlimitedDepth}

ImpurityThresholds == {Rat(0, 1), Rat(1, 2)}

\* The feature matrices without NaN, and those with NaN in exactly one cell.
PointMatrices(pointCount, featureCount) ==
    LET cells == 1..(pointCount * featureCount)
    IN  [cells -> Values]
            \cup {[m EXCEPT ![i] = NaN] : m \in [cells -> Values], i \in cells}

TrainingInputs ==
    UNION {
        [dataPoints            : PointMatrices(P, M),
         labels                : [1..P -> Classes],
         featureCount          : {M},
         pointCount            : {P},
         featuresToConsider    : 1..M,
         maximumDistanceToRoot : MaximumDepths,
         impurityThreshold     : ImpurityThresholds]
        : P \in 1..MaxPoints, M \in 1..MaxFeatures}

TreeInit ==
    /\ pc = "start"
    /\ input \in TrainingInputs
    /\ tree = NoTree
    /\ twin = NoTree
    /\ classifier = NoClassifier
    /\ out = NoCall
    /\ lft = LabelFrequencyTable(0)
    /\ lftOut = NoQuery
    /\ ensemble = NoEnsemble
    /\ callerTable = NoTable
    /\ workers = NoWorkers
    /\ jobQueue = EmptyQueue
    /\ earlier = NoCall

\* The trees the constructor can build from the input.
ConstructedTrees ==
    {IndexedDecisionTree(input.dataPoints, input.labels, input.featureCount,
                         input.pointCount, input.featuresToConsider,
                         input.maximumDistanceToRoot, input.impurityThreshold,
                         featureIndex) :
        featureIndex \in FeatureIndexOutcomes(input.dataPoints, input.labels,
                                              input.featureCount, input.pointCount)}

\* The constructor meets a NaN and throws ClientError: no tree.
ConstructThrows ==
    /\ pc = "start"
    /\ HasNaN(input.dataPoints, input.featureCount, input.pointCount)
    /\ pc' = "ClientError"
    /\ UNCHANGED <<input, tree, twin, classifier, out, tableVars, ensembleVars>>

Construct ==
    /\ pc = "start"
    /\ ~HasNaN(input.dataPoints, input.featureCount, input.pointCount)
    /\ tree' \in ConstructedTrees
    /\ pc' = "constructed"
    /\ UNCHANGED <<input, twin, classifier, out, tableVars, ensembleVars>>

Seed(value) ==
    /\ pc = "constructed"
    /\ tree' = seed(tree, value)
    /\ pc' = "growing"
    /\ UNCHANGED <<input, twin, classifier, out, tableVars, ensembleVars>>

\* One iteration of grow().  The step leaves a record of the leaf it took from
\* the queue and of the tree it found.
GrowNextLeaf ==
    /\ pc = "growing"
    /\ isGrowable(tree)
    /\ tree' = growNextLeaf(tree)
    /\ out' = [op |-> "growNextLeaf", leaf |-> Head(tree.growableLeaves), before |-> tree]
    /\ UNCHANGED <<pc, input, twin, classifier, tableVars, ensembleVars>>

\* grow() has returned; getDecisionTree().
GetDecisionTree ==
    /\ pc = "growing"
    /\ ~isGrowable(tree)
    /\ classifier' = getDecisionTree(tree)
    /\ pc' = "converted"
    /\ UNCHANGED <<input, tree, twin, out, tableVars, ensembleVars>>

\* The classifier classifies the training set.
ClassifyTrainingSet ==
    /\ pc = "converted"
    /\ out' = [op |-> "classify", points |-> input.dataPoints]
                  @@ classify(classifier, input.dataPoints)
    /\ pc' = "classified"
    /\ UNCHANGED <<input, tree, twin, classifier, tableVars, ensembleVars>>

TreeNext ==
    \/ ConstructThrows
    \/ Construct
    \/ \E value \in 0..MaxSeed : Seed(value)
    \/ GrowNextLeaf
    \/ GetDecisionTree
    \/ ClassifyTrainingSet

SpecTree == TreeInit /\ [][TreeNext]_vars

(***************************************************************************)
(* Claims on the training run.                                             *)
(***************************************************************************)
\* The feature vector of a point of a row-major matrix.
PointOf(dataPoints, featureCount, point) ==
    [f \in 1..featureCount |-> At(dataPoints, point * featureCount + f - 1)]

NoDuplicatePoints ==
    \A p, q \in 0..(input.pointCount - 1) :
        p # q => PointOf(input.dataPoints, input.featureCount, p)
                     # PointOf(input.dataPoints, input.featureCount, q)

\* C1: for a training set without duplicate points, a tree built with
\* unlimited depth and impurity threshold 0, grown until no leaf is growable
\* and converted, classifies every training point with its training label.
C1_TrainingSetClassifiedWithItsLabels ==
    ( /\ pc = "classified"
      /\ NoDuplicatePoints
      /\ input.maximumDistanceToRoot = UnlimitedDepth
      /\ RatEq(input.impurityThreshold, Rat(0, 1)) )
    => out.labels = input.labels

\* Some cell of the training matrix is NaN.
MatrixHoldsNaN == \E i \in DOMAIN input.dataPoints : input.dataPoints[i] = NaN

\* C9: constructing a tree from a feature matrix that holds a NaN fails with
\* ClientError and produces no tree: no root node, no growable leaf.
C9_NaNRejectedWithoutTree ==
    (pc # "start" /\ MatrixHoldsNaN)
    => /\ pc = "ClientError"
       /\ tree.nodes = << >>
       /\ tree.growableLeaves = << >>

\* C9 witness: the constructor threw on a NaN that is not in the first cell.
C9_Witness ==
    /\ pc = "ClientError"
    /\ ~isnan(input.dataPoints[1])
    /\ isnan(input.dataPoints[input.pointCount * input.featureCount])
    /\ tree.nodes = << >>

\* The constructor has returned: the tree holds its feature index and a root.
TreeBuilt == pc \in {"constructed", "growing", "converted", "classified"}

\* The slice [indexOffset, indexOffset + pointCount) of a node in the index
\* of feature f.
NodeSlice(t, node, f) ==
    SubSeq(t.featureIndex[f + 1], node.indexOffset + 1,
           node.indexOffset + getPointCount(node))

\* C12: after construction and after every growth step, each of the M
\* single-feature indices holds exactly one entry per data point (the point
\* ids are a permutation of 0..P-1) and each entry carries that point's value
\* of the feature and that point's label.
C12_IndexHoldsEveryPointOnce ==
    TreeBuilt =>
        /\ Len(tree.featureIndex) = input.featureCount
        /\ \A f \in 0..(input.featureCount - 1) :
              LET index == tree.featureIndex[f + 1]
              IN  /\ Len(index) = input.pointCount
                  /\ {index[i].pointID : i \in 1..Len(index)} = 0..(input.pointCount - 1)
                  /\ \A i \in 1..Len(index) :
                        /\ index[i].featureValue =
                              At(input.dataPoints, index[i].pointID * input.featureCount + f)
                        /\ index[i].label = At(input.labels, index[i].pointID)

\* C12 witness: a node of a tree over two features was split, and the
\* partitioning left the index of some feature out of its sorted order.
C12_Witness ==
    /\ pc = "growing"
    /\ input.featureCount = 2
    /\ Len(tree.nodes) >= 3
    /\ \E f \in 1..2 : ~IsSortedIndex(tree.featureIndex[f])

C13_EveryNodeSliceSorted ==
    TreeBuilt =>
        \A n \in 1..Len(tree.nodes), f \in 0..(input.featureCount - 1) :
            IsSortedIndex(NodeSlice(tree, tree.nodes[n], f))

\* C13 as amended: after every growth step, for every leaf node in the arena
\* and every feature f, the node's slice of the index of f is sorted in
\* non-decreasing order of the value of f.
C13_EveryLeafSliceSorted ==
    TreeBuilt =>
        \A n \in 1..Len(tree.nodes), f \in 0..(input.featureCount - 1) :
            isLeafNode(tree.nodes[n]) => IsSortedIndex(NodeSlice(tree, tree.nodes[n], f))

\* C13 witness: the root was split on one feature, its slice in the other
\* feature is no longer sorted, and a child holding points of different values
\* of the other feature has them in order.
C13_Witness ==
    /\ TreeBuilt
    /\ Len(tree.nodes) >= 3
    /\ \E f \in 0..(input.featureCount - 1) :
          /\ f # tree.nodes[1].split.feature
          /\ ~IsSortedIndex(NodeSlice(tree, tree.nodes[1], f))
          /\ \E n \in 2..Len(tree.nodes) :
                LET slice == NodeSlice(tree, tree.nodes[n], f)
                IN  /\ isLeafNode(tree.nodes[n])
                    /\ Len(slice) >= 2
                    /\ EntryLess(slice[1], slice[Len(slice)])

\* The last step was a growth step.
Grown == pc = "growing" /\ out.op = "growNextLeaf"

\* The leaf the last growth step took from the queue, before and after.
LeafBefore == NodeAt(out.before, out.leaf)

LeafAfter == NodeAt(tree, out.leaf)

\* The last growth step split its leaf.
LeafWasSplit == ~isLeafNode(LeafAfter)

\* The impurity of the split the last growth step applied, from the label
\* counts it gave the two children.
AppliedImpurity ==
    SplitCandidate(LeafAfter.split,
                   NodeAt(tree, LeafAfter.leftChild).labelCounts,
                   NodeAt(tree, LeafAfter.rightChild).labelCounts).impurity

\* The table with the labels of the given entries counted in, or out.
RECURSIVE CountedIn(_, _)
CountedIn(t, entries) ==
    IF entries = << >> THEN t ELSE CountedIn(increment(t, Head(entries).label), Tail(entries))

RECURSIVE CountedOut(_, _)
CountedOut(t, entries) ==
    IF entries = << >> THEN t ELSE CountedOut(decrement(t, Head(entries).label), Tail(entries))

\* The candidate splits of a node on feature f: one at every entry of the
\* node's slice whose value is above that of the entry before it.
CandidatesOn(t, node, f) ==
    LET slice == NodeSlice(t, node, f)
    IN  {SplitCandidate(Split(f, slice[i].featureValue),
                        CountedIn(LabelFrequencyTable(size(node.labelCounts)),
                                  SubSeq(slice, 1, i - 1)),
                        CountedOut(node.labelCounts, SubSeq(slice, 1, i - 1))) :
            i \in {j \in 2..Len(slice) : slice[j - 1].featureValue < slice[j].featureValue}}

\* The features the coin chose for the leaf in the first loop of findBestSplit,
\* and those it skipped, in order.
SkippedFeatures ==
    ScanChosenFeatures(out.before, LeafBefore,
        [featureID       |-> 0,
         featuresToScan  |-> out.before.featuresToConsider,
         skippedFeatures |-> << >>,
         bestSplit       |-> InvalidSplitCandidate,
         coin            |-> out.before.coin]).skippedFeatures

ChosenFeatures ==
    {f \in 0..(input.featureCount - 1) :
        \A k \in 1..Len(SkippedFeatures) : SkippedFeatures[k] # f}

\* The features findBestSplit scanned for the leaf: the chosen ones and, when
\* none of them gave a candidate, the skipped ones up to the first that did.
ConsideredFeatures ==
    IF \E f \in ChosenFeatures : CandidatesOn(out.before, LeafBefore, f) # {}
    THEN ChosenFeatures
    ELSE ChosenFeatures \cup
         {SkippedFeatures[k] : k \in {j \in 1..Len(SkippedFeatures) :
             \A i \in 1..(j - 1) :
                 CandidatesOn(out.before, LeafBefore, SkippedFeatures[i]) = {}}}

\* C14: after findBestSplit on a node returns a valid split, the impurity of
\* the returned split is less than or equal to the impurity of every candidate
\* split that was evaluated on any of the features considered for that node.
C14_SplitHasLeastImpurityOfConsidered ==
    (Grown /\ LeafWasSplit) =>
        \A f \in ConsideredFeatures :
            \A candidate \in CandidatesOn(out.before, LeafBefore, f) :
                RatLeq(AppliedImpurity, candidate.impurity)

\* C14 witness: both features were chosen, each gave a candidate, the
\* candidate on the second feature had the lower impurity and the leaf was
\* split on the second feature.
C14_Witness ==
    /\ Grown
    /\ LeafWasSplit
    /\ ChosenFeatures = {0, 1}
    /\ LeafAfter.split.feature = 1
    /\ \E c0 \in CandidatesOn(out.before, LeafBefore, 0) :
          \E c1 \in CandidatesOn(out.before, LeafBefore, 1) :
              RatLess(c1.impurity, c0.impurity)

\* Feature f has one value over all points of the node.
ConstantOn(t, node, f) ==
    LET slice == NodeSlice(t, node, f)
    IN  \A i \in 1..Len(slice) : slice[i].featureValue = slice[1].featureValue

Features == 0..(input.featureCount - 1)

\* The best splits findBestSplitForFeature may be handed for the leaf: none
\* yet, or a candidate of any feature.
IncomingSplits ==
    {InvalidSplitCandidate}
        \cup UNION {CandidatesOn(out.before, LeafBefore, g) : g \in Features}

\* C15: a feature whose value is the same for all points of a node yields no
\* split candidate in findBestSplitForFeature, which returns the incoming
\* best split unchanged; such a feature is never the split feature of the node.
C15_ConstantFeatureYieldsNoSplit ==
    Grown =>
        \A f \in Features :
            ConstantOn(out.before, LeafBefore, f) =>
                /\ \A incoming \in IncomingSplits :
                      findBestSplitForFeature(out.before, LeafBefore, f, incoming) = incoming
                /\ LeafWasSplit => LeafAfter.split.feature # f

\* C15 witness: the coin chose the first feature only, which is constant
\* over the leaf; the leaf was split on the second feature.
C15_Witness ==
    /\ Grown
    /\ LeafWasSplit
    /\ ChosenFeatures = {0}
    /\ ConstantOn(out.before, LeafBefore, 0)
    /\ LeafAfter.split.feature = 1

\* Every feature is constant over the points of the leaf.
AllConstant == \A f \in Features : ConstantOn(out.before, LeafBefore, f)

\* The lowest of the labels most frequent among the given entries.
ModeLabel(entries) ==
    LET Count(l) == Cardinality({i \in 1..Len(entries) : entries[i].label = l})
    IN  CHOOSE l \in Classes :
            /\ \A k \in Classes : Count(k) <= Count(l)
            /\ \A k \in Classes : k < l => Count(k) < Count(l)

\* The growth step left its leaf a leaf and added nothing.
LeafLeftAlone ==
    /\ LeafAfter.leftChild = 0
    /\ LeafAfter.rightChild = 0
    /\ tree.nodes = out.before.nodes
    /\ tree.growableLeaves = Tail(out.before.growableLeaves)

\* C16: findBestSplit returns an invalid candidate if and only if every one
\* of the M features is constant over the node's points; the growth step then
\* leaves the node a leaf with no children, its label the most frequent label
\* of its points, and adds nothing to the arena or the growable queue.
C16_UnsplittableIffAllFeaturesConstant ==
    Grown =>
        /\ ~isValid(findBestSplit(out.before, out.leaf).split) <=> AllConstant
        /\ AllConstant =>
              /\ LeafLeftAlone
              /\ LeafAfter.label = ModeLabel(NodeSlice(out.before, LeafBefore, 0))

\* C16 without its sentence on the label.
UnsplittableLeafLeftAlone ==
    Grown =>
        /\ ~isValid(findBestSplit(out.before, out.leaf).split) <=> AllConstant
        /\ AllConstant <=> LeafLeftAlone

\* All points of the training set carry one label.
SingleClass == \A p, q \in 1..input.pointCount : input.labels[p] = input.labels[q]

\* C19: for a training set in which all points carry the same label, the
\* tree consists of the root node only, the root is never enqueued as
\* growable, and the root's label equals that class.
C19_SingleClassGivesRootOnly ==
    (TreeBuilt /\ SingleClass) =>
        /\ Len(tree.nodes) = 1
        /\ tree.growableLeaves = << >>
        /\ tree.nodes[1].label = input.labels[1]
        /\ pc \in {"converted", "classified"} => classifier.label = <<input.labels[1]>>

\* C19 witness: several points of the highest class that differ in a feature,
\* trained with unlimited depth and threshold 0, gave a single root.
C19_Witness ==
    /\ pc = "converted"
    /\ SingleClass
    /\ input.labels[1] = MaxClass
    /\ input.pointCount >= 2
    /\ ~ConstantOn(tree, tree.nodes[1], 0)
    /\ input.maximumDistanceToRoot = UnlimitedDepth
    /\ RatEq(input.impurityThreshold, Rat(0, 1))
    /\ classifier.label = <<MaxClass>>

\* The leaves of the arena whose slice of the index of feature f holds point p.
LeavesHolding(p, f) ==
    {n \in 0..(Len(tree.nodes) - 1) :
        /\ isLeafNode(NodeAt(tree, n))
        /\ \E i \in 1..getPointCount(NodeAt(tree, n)) :
              NodeSlice(tree, NodeAt(tree, n), f)[i].pointID = p}

\* C20: getDecisionTree() produces a flat classifier with one row per arena
\* node in the same numbering, each row copying that node's left child, right
\* child, split feature, split value and label; classifying any training point
\* with the flat classifier gives the label of the arena leaf whose index
\* slice contains that point.
C20_FlatClassifierMirrorsArena ==
    /\ pc \in {"converted", "classified"} =>
          /\ Len(classifier.leftChildID) = Len(tree.nodes)
          /\ Len(classifier.rightChildID) = Len(tree.nodes)
          /\ Len(classifier.splitFeatureID) = Len(tree.nodes)
          /\ Len(classifier.splitValue) = Len(tree.nodes)
          /\ Len(classifier.label) = Len(tree.nodes)
          /\ \A n \in 0..(Len(tree.nodes) - 1) :
                /\ Cell(classifier.leftChildID, n) = NodeAt(tree, n).leftChild
                /\ Cell(classifier.rightChildID, n) = NodeAt(tree, n).rightChild
                /\ Cell(classifier.splitFeatureID, n) = NodeAt(tree, n).split.feature
                /\ Cell(classifier.splitValue, n) = NodeAt(tree, n).split.value
                /\ Cell(classifier.label, n) = NodeAt(tree, n).label
    /\ pc = "classified" =>
          \A p \in 0..(input.pointCount - 1), f \in Features :
              \E n \in 0..(Len(tree.nodes) - 1) :
                  /\ LeavesHolding(p, f) = {n}
                  /\ out.labels[p + 1] = NodeAt(tree, n).label

\* C20 witness: a grown tree with leaves of both labels classified its
\* training set, giving both labels.
C20_Witness ==
    /\ pc = "classified"
    /\ Len(tree.nodes) >= 3
    /\ \E p, q \in 1..input.pointCount : out.labels[p] # out.labels[q]
    /\ \E p \in 0..(input.pointCount - 1) : LeavesHolding(p, 0) = {Len(tree.nodes) - 1}

\* C17: with impurityThreshold >= (M - 1) / M, M the number of features, no
\* node is ever split: after construction the growable queue is empty and the
\* tree stays a single root node, for every data set.
C17_HighThresholdGrowsNothing ==
    (TreeBuilt /\ RatLeq(Rat(input.featureCount - 1, input.featureCount),
                         input.impurityThreshold))
    => /\ pc = "constructed" => tree.growableLeaves = << >>
       /\ Len(tree.nodes) = 1

\* The candidate splits of a node on feature f in the order of the scan.
CandidateSeq(t, node, f) ==
    LET slice == NodeSlice(t, node, f)
        ends  == SelectSeq([j \in 1..Len(slice) |-> j],
                           LAMBDA j : j > 1 /\ slice[j - 1].featureValue < slice[j].featureValue)
    IN  [k \in 1..Len(ends) |->
            SplitCandidate(Split(f, slice[ends[k]].featureValue),
                           CountedIn(LabelFrequencyTable(size(node.labelCounts)),
                                     SubSeq(slice, 1, ends[k] - 1)),
                           CountedOut(node.labelCounts, SubSeq(slice, 1, ends[k] - 1)))]

\* The earliest split of a list among those of the least impurity.
EarliestMinimum(splits) ==
    splits[CHOOSE k \in 1..Len(splits) :
               /\ \A j \in 1..Len(splits) : RatLeq(splits[k].impurity, splits[j].impurity)
               /\ \A j \in 1..(k - 1) : RatLess(splits[k].impurity, splits[j].impurity)]

\* C29: findBestSplitForFeature returns, of the incoming best split followed
\* by the candidates of the feature in the order of the scan, the earliest
\* of least impurity: a candidate replaces the best split only when its
\* impurity is strictly lower.
C29_EarliestLeastImpurityIsKept ==
    Grown =>
        \A f \in Features :
            \A incoming \in IncomingSplits :
                findBestSplitForFeature(out.before, LeafBefore, f, incoming) =
                    EarliestMinimum(<<incoming>> \o CandidateSeq(out.before, LeafBefore, f))

\* C29 witness: two candidates of the scanned feature tie at the least
\* impurity, below the incoming split's, and the leaf was split at the
\* earlier of the two.
C29_Witness ==
    /\ Grown
    /\ LeafWasSplit
    /\ LET candidates == CandidateSeq(out.before, LeafBefore, LeafAfter.split.feature)
       IN  \E i, j \in 1..Len(candidates) :
              /\ i < j
              /\ RatEq(candidates[i].impurity, candidates[j].impurity)
              /\ \A k \in 1..Len(candidates) :
                    RatLeq(candidates[i].impurity, candidates[k].impurity)
              /\ LeafAfter.split = candidates[i].split

(***************************************************************************)
(* SpecExample: the training run of SpecTree on training sets of           *)
(* ExamplePointCount points of one feature with values 0..ExampleMaxValue. *)
(***************************************************************************)
ExamplePointCount == 4

ExampleMaxValue == 3

\* The matrices of one column without NaN, and those with NaN in one cell.
ExampleMatrices ==
    LET cells == 1..ExamplePointCount
    IN  [cells -> 0..ExampleMaxValue]
            \cup {[m EXCEPT ![i] = NaN] : m \in [cells -> 0..ExampleMaxValue], i \in cells}

ExampleInputs ==
    [dataPoints            : ExampleMatrices,
     labels                : [1..ExamplePointCount -> Classes],
     featureCount          : {1},
     pointCount            : {ExamplePointCount},
     featuresToConsider    : {1},
     maximumDistanceToRoot : {UnlimitedDepth},
     impurityThreshold     : ImpurityThresholds]

ExampleInit ==
    /\ pc = "start"
    /\ input \in ExampleInputs
    /\ tree = NoTree
    /\ twin = NoTree
    /\ classifier = NoClassifier
    /\ out = NoCall
    /\ lft = LabelFrequencyTable(0)
    /\ lftOut = NoQuery
    /\ ensemble = NoEnsemble
    /\ callerTable = NoTable
    /\ workers = NoWorkers
    /\ jobQueue = EmptyQueue
    /\ earlier = NoCall

SpecExample == ExampleInit /\ [][TreeNext]_vars

\* The training set of the example: matrix [[0],[1],[2],[3]] with labels
\* [0,0,1,1], unlimited depth, impurityThreshold 0 and featuresToConsider 1.
IsExampleInput ==
    /\ input.dataPoints = <<0, 1, 2, 3>>
    /\ input.labels = <<0, 0, 1, 1>>
    /\ input.featureCount = 1
    /\ input.featuresToConsider = 1
    /\ input.maximumDistanceToRoot = UnlimitedDepth
    /\ RatEq(input.impurityThreshold, Rat(0, 1))

\* C18: training on the example yields a three-node tree whose root splits
\* on feature 0 at value 2, whose left child is a leaf labelled 0 and whose
\* right child is a leaf labelled 1.
C18_ExampleTreeSplitsAtTwo ==
    (IsExampleInput /\ pc \in {"converted", "classified"}) =>
        /\ Len(tree.nodes) = 3
        /\ classifier.leftChildID = <<1, 0, 0>>
        /\ classifier.rightChildID = <<2, 0, 0>>
        /\ classifier.splitFeatureID[1] = 0
        /\ classifier.splitValue[1] = 2
        /\ classifier.label[2] = 0
        /\ classifier.label[3] = 1

\* The Gini impurity of a table of label counts, 1 - sum of (c / T)^2.
GiniOfCounts(t) ==
    Rat(getTotal(t) * getTotal(t) - SquaredCountsSum(t), getTotal(t) * getTotal(t))

\* Node `id` is a leaf less than the maximum depth from the root whose label
\* counts have a Gini impurity above the threshold.
IsImpureLeafAboveMaxDepth(t, id) ==
    /\ isLeafNode(NodeAt(t, id))
    /\ NodeAt(t, id).distanceToRoot < t.maximumDistanceToRoot
    /\ RatLess(t.impurityThreshold, GiniOfCounts(NodeAt(t, id).labelCounts))

\* The same with the value giniImpurity() returns for the impurity.
IsGrowableLeaf(t, id) ==
    /\ isLeafNode(NodeAt(t, id))
    /\ NodeAt(t, id).distanceToRoot < t.maximumDistanceToRoot
    /\ RatLess(t.impurityThreshold, giniImpurity(NodeAt(t, id).labelCounts))

\* The ids first..last in ascending order.
IdsFrom(first, last) == [i \in 1..(last - first + 1) |-> first + i - 1]

\* C32: a node id is in the growable queue only if the node is a leaf with
\* distanceToRoot < maxDepth and a Gini impurity of its label counts above
\* the threshold; the root and the two children of every split that satisfy
\* the two conditions are appended to the back of the queue, once, and the
\* leaf grown is the one at the front.
C32_QueueHoldsImpureLeavesInOrder ==
    TreeBuilt =>
        /\ \A i \in 1..Len(tree.growableLeaves) :
              IsImpureLeafAboveMaxDepth(tree, tree.growableLeaves[i])
        /\ \A i, j \in 1..Len(tree.growableLeaves) :
              i # j => tree.growableLeaves[i] # tree.growableLeaves[j]
        /\ pc = "constructed" =>
              tree.growableLeaves =
                  SelectSeq(<<0>>, LAMBDA id : IsImpureLeafAboveMaxDepth(tree, id))
        /\ Grown =>
              /\ out.leaf = Head(out.before.growableLeaves)
              /\ tree.growableLeaves =
                    Tail(out.before.growableLeaves)
                        \o SelectSeq(IdsFrom(Len(out.before.nodes), Len(tree.nodes) - 1),
                                     LAMBDA id : IsImpureLeafAboveMaxDepth(tree, id))

\* The queue holds, in that order, the nodes for which isGrowableNode() was
\* true when they were created: the statement of C32 with the value that
\* giniImpurity() returns.
QueueHoldsGrowableLeavesInOrder ==
    TreeBuilt =>
        /\ \A i \in 1..Len(tree.growableLeaves) :
              IsGrowableLeaf(tree, tree.growableLeaves[i])
        /\ \A i, j \in 1..Len(tree.growableLeaves) :
              i # j => tree.growableLeaves[i] # tree.growableLeaves[j]
        /\ pc = "constructed" =>
              tree.growableLeaves = SelectSeq(<<0>>, LAMBDA id : IsGrowableLeaf(tree, id))
        /\ Grown =>
              /\ out.leaf = Head(out.before.growableLeaves)
              /\ tree.growableLeaves =
                    Tail(out.before.growableLeaves)
                        \o SelectSeq(IdsFrom(Len(out.before.nodes), Len(tree.nodes) - 1),
                                     LAMBDA id : IsGrowableLeaf(tree, id))

ParentsOf(left, right, id) == {n \in 0..(Len(left) - 1) : left[n + 1] = id \/ right[n + 1] = id}

\* Both child ids are 0, or both are non-zero, distinct and greater than the
\* node's own id; every node but node 0 is the child of exactly one node.
\* (Child id 0 means "no child", so node 0 is nobody's child.)
IsRootedTree(left, right) ==
    /\ Len(left) = Len(right)
    /\ \A n \in 0..(Len(left) - 1) :
          \/ left[n + 1] = 0 /\ right[n + 1] = 0
          \/ /\ left[n + 1] # 0 /\ right[n + 1] # 0
             /\ left[n + 1] # right[n + 1]
             /\ left[n + 1] > n /\ right[n + 1] > n
             /\ left[n + 1] < Len(left) /\ right[n + 1] < Len(left)
    /\ \A id \in 1..(Len(left) - 1) : Cardinality(ParentsOf(left, right, id)) = 1

\* C34: in every state of tree growth, and in the flat classifier derived
\* from the tree, each node has both child ids 0 or both non-zero, distinct
\* and greater than its own id, and every node other than the root is the
\* child of exactly one node.
C34_NodesFormRootedTree ==
    /\ TreeBuilt =>
          IsRootedTree([n \in 1..Len(tree.nodes) |-> tree.nodes[n].leftChild],
                       [n \in 1..Len(tree.nodes) |-> tree.nodes[n].rightChild])
    /\ pc \in {"converted", "classified"} =>
          /\ IsRootedTree(classifier.leftChildID, classifier.rightChildID)
          /\ Len(classifier.leftChildID) = Len(tree.nodes)

\* A fully grown tree of five nodes whose second split was made below the
\* first has been converted to the flat classifier.
C34_Witness ==
    /\ pc = "converted"
    /\ Len(classifier.leftChildID) = 5
    /\ classifier.leftChildID[1] = 1
    /\ classifier.rightChildID[1] = 2
    /\ 3 \in {classifier.leftChildID[2], classifier.leftChildID[3]}

(***************************************************************************)
(* The slices of the feature index against the routing of the points.      *)
(***************************************************************************)

\* The node that names node id (not the root) as a child.
ParentOf(t, id) ==
    CHOOSE n \in 0..(Len(t.nodes) - 1) :
        NodeAt(t, n).leftChild = id \/ NodeAt(t, n).rightChild = id

\* The points the splits of the ancestors of node id route to it: a point
\* goes left when its value of the split feature is below the split value.
RECURSIVE RoutedTo(_, _)
RoutedTo(t, id) ==
    IF id = 0 THEN 0..(t.pointCount - 1)
    ELSE LET parent == NodeAt(t, ParentOf(t, id))
             GoesLeft(q) ==
                 FLess(At(t.dataPoints, q * t.featureCount + parent.split.feature),
                       parent.split.value)
         IN  {q \in RoutedTo(t, ParentOf(t, id)) : GoesLeft(q) <=> (id = parent.leftChild)}

\* The point ids of a sequence of index entries.
PointIDsOf(entries) == {entries[i].pointID : i \in 1..Len(entries)}

\* The slice of every node in every feature's index holds exactly the points
\* routed to the node, each once.
SlicesHoldRoutedPoints ==
    \A id \in 0..(Len(tree.nodes) - 1) : \A f \in 0..(tree.featureCount - 1) :
        LET slice == NodeSlice(tree, NodeAt(tree, id), f)
        IN  /\ PointIDsOf(slice) = RoutedTo(tree, id)
            /\ Len(slice) = Cardinality(RoutedTo(tree, id))

\* The labels of the entries of every slice, counted, are the node's label
\* counts.
SlicesMatchLabelCounts ==
    \A id \in 0..(Len(tree.nodes) - 1) : \A f \in 0..(tree.featureCount - 1) :
        LET node  == NodeAt(tree, id)
            slice == NodeSlice(tree, node, f)
        IN  /\ \A l \in 0..(size(node.labelCounts) - 1) :
                  getCount(node.labelCounts, l)
                      = Cardinality({i \in 1..Len(slice) : slice[i].label = l})
            /\ \A i \in 1..Len(slice) : slice[i].label < size(node.labelCounts)

\* The positions [indexOffset, indexOffset + pointCount) of a node.
PositionsOf(node) == node.indexOffset..(node.indexOffset + getPointCount(node) - 1)

\* The slices of the leaves are disjoint and cover the P positions.
LeafSlicesTileTheIndex ==
    LET leaves == {id \in 0..(Len(tree.nodes) - 1) : isLeafNode(NodeAt(tree, id))}
    IN  /\ \A a, b \in leaves :
              a # b => PositionsOf(NodeAt(tree, a)) \cap PositionsOf(NodeAt(tree, b)) = {}
        /\ UNION {PositionsOf(NodeAt(tree, a)) : a \in leaves} = 0..(tree.pointCount - 1)

\* assert( newLeftPointCount == leftPointCount ) in splitNode: on every
\* feature but the split feature, the entries of the leaf's slice that the
\* predicate sends left are as many as the left counts of the candidate say.
LeftPointCountAsserted ==
    LeafWasSplit =>
        \A f \in 0..(tree.featureCount - 1) :
            f # LeafAfter.split.feature =>
                LET slice == NodeSlice(out.before, LeafBefore, f)
                    Left(entry) ==
                        FLess(At(tree.dataPoints,
                                 entry.pointID * tree.featureCount + LeafAfter.split.feature),
                              LeafAfter.split.value)
                IN  Len(SelectSeq(slice, Left))
                        = getTotal(NodeAt(tree, LeafAfter.leftChild).labelCounts)

\* C35: after every growth step the slice of every node in every feature's
\* index holds exactly the points routed to the node by its ancestors'
\* splits, with a label multiset equal to the node's label counts; the
\* slices of the leaves are disjoint and cover all P positions; and the
\* assertion newLeftPointCount == leftPointCount of splitNode holds.
C35_SlicesHoldRoutedPointsAndCounts ==
    Grown =>
        /\ SlicesHoldRoutedPoints
        /\ SlicesMatchLabelCounts
        /\ LeafSlicesTileTheIndex
        /\ LeftPointCountAsserted

\* C35 without the label counts: after every growth step every slice holds
\* exactly the routed points, the slices of the leaves tile the index, and
\* the assertion of splitNode holds.
SlicesHoldRoutedPointsAfterGrowth ==
    Grown =>
        /\ SlicesHoldRoutedPoints
        /\ LeafSlicesTileTheIndex
        /\ LeftPointCountAsserted

(***************************************************************************)
(* SpecTreeFair: the training run of SpecTree in which grow(), once        *)
(* called, keeps running: its loop                                         *)
(*     while ( isGrowable() ) growNextLeaf();                              *)
(* is sequential code, so an iteration that can be taken is taken.         *)
(***************************************************************************)

\* An iteration of grow(), by the record it leaves: it is enabled exactly
\* when GrowNextLeaf is, and the steps of the training run that satisfy it
\* and change out are the GrowNextLeaf steps.
GrowLoopRuns ==
    /\ pc = "growing"
    /\ isGrowable(tree)
    /\ out' = [op |-> "growNextLeaf", leaf |-> Head(tree.growableLeaves), before |-> tree]

SpecTreeFair == TreeInit /\ [][TreeNext]_vars /\ WF_out(GrowLoopRuns)

\* The last growth step took the front leaf from the queue, and appended to
\* the queue nothing but children it created.
StepRemovesFrontLeaf ==
    /\ out.leaf = Head(out.before.growableLeaves)
    /\ \E added \in {<< >>, <<Len(out.before.nodes)>>, <<Len(out.before.nodes) + 1>>,
                     <<Len(out.before.nodes), Len(out.before.nodes) + 1>>} :
          /\ tree.growableLeaves = Tail(out.before.growableLeaves) \o added
          /\ \A i \in 1..Len(added) : added[i] < Len(tree.nodes)

\* The last growth step added no node or two, each with at least one point
\* and with fewer points than the leaf that was split.
StepAddsSmallerChildren ==
    /\ Len(tree.nodes) - Len(out.before.nodes) \in {0, 2}
    /\ \A id \in Len(out.before.nodes)..(Len(tree.nodes) - 1) :
          /\ getPointCount(NodeAt(tree, id)) >= 1
          /\ getPointCount(NodeAt(tree, id)) < getPointCount(LeafBefore)

\* grow() has nothing left to do.
GrowReturns == ~isGrowable(tree)

\* C36: grow() terminates: every growth step removes one leaf from the
\* queue and adds at most two children, each with at least one point and
\* fewer points than the split node; the arena never holds more than
\* 2P - 1 nodes; and the queue eventually becomes empty.
C36_GrowTerminates ==
    /\ [](Grown => StepRemovesFrontLeaf /\ StepAddsSmallerChildren)
    /\ [](TreeBuilt => Len(tree.nodes) <= 2 * input.pointCount - 1)
    /\ ((pc = "growing") ~> GrowReturns)

\* grow() has returned after splitting down to single points: the arena
\* holds 2P - 1 nodes.
C36_Witness ==
    /\ Grown
    /\ GrowReturns
    /\ input.pointCount >= 3
    /\ Len(tree.nodes) = 2 * input.pointCount - 1

(***************************************************************************)
(* SpecFallback: the training run of SpecTree on training sets of          *)
(* FallbackPoints points and FallbackFeatures features, of which fewer     *)
(* than all are considered at a node, so that findBestSplit has several    *)
(* skipped features to fall back on.                                       *)
(***************************************************************************)
FallbackPoints == 2
FallbackFeatures == 3

FallbackInit ==
    /\ pc = "start"
    /\ input \in [dataPoints            : PointMatrices(FallbackPoints, FallbackFeatures),
                   labels                : [1..FallbackPoints -> Classes],
                   featureCount          : {FallbackFeatures},
                   pointCount            : {FallbackPoints},
                   featuresToConsider    : 1..(FallbackFeatures - 1),
                   maximumDistanceToRoot : {UnlimitedDepth},
                   impurityThreshold     : {Rat(0, 1)}]
    /\ tree = NoTree
    /\ twin = NoTree
    /\ classifier = NoClassifier
    /\ out = NoCall
    /\ lft = LabelFrequencyTable(0)
    /\ lftOut = NoQuery
    /\ ensemble = NoEnsemble
    /\ callerTable = NoTable
    /\ workers = NoWorkers
    /\ jobQueue = EmptyQueue
    /\ earlier = NoCall

SpecFallback == FallbackInit /\ [][TreeNext]_vars

\* The skipped features that have a candidate split on the leaf, in the
\* order they were skipped in.
SkippedWithCandidates ==
    SelectSeq(SkippedFeatures,
              LAMBDA g : CandidatesOn(out.before, LeafBefore, g) # {})

\* None of the features the coin chose has a candidate split on the leaf.
NoChosenFeatureSplits ==
    \A f \in ChosenFeatures : CandidatesOn(out.before, LeafBefore, f) = {}

\* C30: when none of the chosen features yields a valid split, findBestSplit
\* scans the skipped features in ascending feature id and returns the best
\* split of the lowest-numbered skipped feature that has a candidate,
\* whatever the candidates of the skipped features above it.
C30_FallbackTakesFirstSkippedFeature ==
    (Grown /\ NoChosenFeatureSplits) =>
        /\ \A i, j \in 1..Len(SkippedFeatures) :
              i < j => SkippedFeatures[i] < SkippedFeatures[j]
        /\ IF SkippedWithCandidates = << >>
           THEN ~LeafWasSplit
           ELSE LET g == Head(SkippedWithCandidates)
                IN  /\ \A h \in Features :
                          (h < g /\ CandidatesOn(out.before, LeafBefore, h) # {}) =>
                              h \in ChosenFeatures
                    /\ findBestSplit(out.before, out.leaf).split =
                          EarliestMinimum(CandidateSeq(out.before, LeafBefore, g))
                    /\ LeafWasSplit
                    /\ LeafAfter.split =
                          EarliestMinimum(CandidateSeq(out.before, LeafBefore, g)).split

\* C30 witness: the chosen feature is constant over the leaf, two skipped
\* features have candidates, the higher-numbered one a candidate of
\* strictly lower impurity, and the leaf was split on the lower-numbered.
C30_Witness ==
    /\ Grown
    /\ NoChosenFeatureSplits
    /\ ChosenFeatures # {}
    /\ Len(SkippedWithCandidates) = 2
    /\ \E low \in CandidatesOn(out.before, LeafBefore, SkippedWithCandidates[1]) :
          \E high \in CandidatesOn(out.before, LeafBefore, SkippedWithCandidates[2]) :
              RatLess(high.impurity, low.impurity)
    /\ LeafWasSplit
    /\ LeafAfter.split.feature = SkippedWithCandidates[1]

(***************************************************************************)
(* SpecTable: a LabelFrequencyTable built by either constructor, then      *)
(* incremented, decremented and queried.                                   *)
(***************************************************************************)
LabelSeqs(n) == UNION {[1..k -> Labels] : k \in 0..n}

TableInit ==
    /\ lft \in {LabelFrequencyTable(limit) : limit \in 0..(MaxLabel + 1)}
               \cup {LabelFrequencyTableFromRange(ls) : ls \in LabelSeqs(MaxTotal - 1)}
    /\ lftOut = NoQuery
    /\ pc = "idle"
    /\ input = NoInput
    /\ tree = NoTree
    /\ twin = NoTree
    /\ classifier = NoClassifier
    /\ out = NoCall
    /\ ensemble = NoEnsemble
    /\ callerTable = NoTable
    /\ workers = NoWorkers
    /\ jobQueue = EmptyQueue
    /\ earlier = NoCall

Increment(label) ==
    /\ label < size(lft)
    /\ getTotal(lft) < MaxTotal
    /\ lft' = increment(lft, label)
    /\ lftOut' = NoQuery
    /\ UNCHANGED <<treeVars, ensembleVars>>

Decrement(label) ==
    /\ label < size(lft)
    /\ getCount(lft, label) > 0
    /\ lft' = decrement(lft, label)
    /\ lftOut' = NoQuery
    /\ UNCHANGED <<treeVars, ensembleVars>>

GiniImpurity ==
    /\ getTotal(lft) > 0
    /\ lftOut' = [op |-> "giniImpurity", result |-> giniImpurity(lft)]
    /\ UNCHANGED <<lft, treeVars, ensembleVars>>

GetMostFrequentLabel ==
    /\ lftOut' = [op |-> "getMostFrequentLabel", result |-> getMostFrequentLabel(lft)]
    /\ UNCHANGED <<lft, treeVars, ensembleVars>>

TableNext ==
    \/ \E label \in Labels : Increment(label)
    \/ \E label \in Labels : Decrement(label)
    \/ GiniImpurity
    \/ GetMostFrequentLabel

SpecTable == TableInit /\ [][TableNext]_vars


(***************************************************************************)
(* Claims on the LabelFrequencyTable.                                      *)
(***************************************************************************)
\* The labels a table can count.
TableLabels(t) == 0..(size(t) - 1)

\* No label of the table has a count above that of label l (unsigned).
HasMaximumCount(t, l) ==
    \A k \in TableLabels(t) : ~ULess(getCount(t, l), getCount(t, k))

\* C3: giniImpurity on a table with counts c_i and total T > 0 returns
\* 1 - (sum of c_i^2) / T^2; the result lies in [0, 1) and is 0 exactly when
\* one label holds all T counts.
C3_GiniIsOneMinusSumOfSquaresOverTotalSquared ==
    lftOut.op = "giniImpurity" =>
        LET T == getTotal(lft)
            S == SquaredCountsSum(lft)
            g == lftOut.result
        IN  /\ RatEq(g, Rat(T * T - S, T * T))
            /\ RatLeq(Rat(0, 1), g)
            /\ RatLess(g, Rat(1, 1))
            /\ RatEq(g, Rat(0, 1)) <=> (\E l \in TableLabels(lft) : getCount(lft, l) = T)

C11_TotalIsSumOfCounts ==
    pc = "idle" => getTotal(lft) = SumSeq([l \in 1..size(lft) |-> getCount(lft, l - 1)])

(***************************************************************************)
(* SpecTwin: two training runs on the same arguments and the same seed,    *)
(* growing step by step side by side.  The first run's std::sort leaves    *)
(* equal feature values in the order they were emitted, the second run's   *)
(* settles their order in any way: every run is the second run of some     *)
(* behaviour, so two runs that each agree with the first agree.            *)
(***************************************************************************)
\* The sort outcome that keeps equivalent entries in their emitted order.
RECURSIVE EmittedOrderSorted(_, _)
EmittedOrderSorted(entries, value) ==
    IF value > MaxValue THEN << >>
    ELSE LET HasValue(entry) == entry.featureValue = value
         IN  SelectSeq(entries, HasValue) \o EmittedOrderSorted(entries, value + 1)

EmittedOrderIndex(dataPoints, labels, featureCount, pointCount) ==
    [f \in 1..featureCount |->
        EmittedOrderSorted(
            EmittedEntries(dataPoints, labels, featureCount, pointCount, f - 1), 0)]

TwinInputs ==
    {i \in TrainingInputs : ~HasNaN(i.dataPoints, i.featureCount, i.pointCount)}

TwinInit ==
    /\ pc = "start"
    /\ input \in TwinInputs
    /\ tree = NoTree
    /\ twin = NoTree
    /\ classifier = NoClassifier
    /\ out = NoCall
    /\ lft = LabelFrequencyTable(0)
    /\ lftOut = NoQuery
    /\ ensemble = NoEnsemble
    /\ callerTable = NoTable
    /\ workers = NoWorkers
    /\ jobQueue = EmptyQueue
    /\ earlier = NoCall

TwinConstruct ==
    /\ pc = "start"
    /\ tree' = IndexedDecisionTree(input.dataPoints, input.labels, input.featureCount,
                                   input.pointCount, input.featuresToConsider,
                                   input.maximumDistanceToRoot, input.impurityThreshold,
                                   EmittedOrderIndex(input.dataPoints, input.labels,
                                                     input.featureCount, input.pointCount))
    /\ tree' \in ConstructedTrees
    /\ twin' \in ConstructedTrees
    /\ pc' = "constructed"
    /\ UNCHANGED <<input, classifier, out, tableVars, ensembleVars>>

TwinSeed(value) ==
    /\ pc = "constructed"
    /\ tree' = seed(tree, value)
    /\ twin' = seed(twin, value)
    /\ pc' = "growing"
    /\ UNCHANGED <<input, classifier, out, tableVars, ensembleVars>>

\* One iteration of grow() in each run that still has a growable leaf.
TwinGrowNextLeaf ==
    /\ pc = "growing"
    /\ isGrowable(tree) \/ isGrowable(twin)
    /\ tree' = IF isGrowable(tree) THEN growNextLeaf(tree) ELSE tree
    /\ twin' = IF isGrowable(twin) THEN growNextLeaf(twin) ELSE twin
    /\ UNCHANGED <<pc, input, classifier, out, tableVars, ensembleVars>>

\* Both runs have left grow(); getDecisionTree() in each.
TwinGetDecisionTree ==
    /\ pc = "growing"
    /\ ~isGrowable(tree)
    /\ ~isGrowable(twin)
    /\ classifier' = getDecisionTree(tree)
    /\ out' = [op |-> "getDecisionTree", classifier |-> getDecisionTree(twin)]
    /\ pc' = "converted"
    /\ UNCHANGED <<input, tree, twin, tableVars, ensembleVars>>

TwinNext ==
    \/ TwinConstruct
    \/ \E value \in 0..MaxSeed : TwinSeed(value)
    \/ TwinGrowNextLeaf
    \/ TwinGetDecisionTree

SpecTwin == TwinInit /\ [][TwinNext]_vars

\* C4: two runs of tree growth on the same feature matrix, labels, coin seed,
\* featuresToConsider, maximum depth and impurity threshold hold the same node
\* arena and the same queue of growable leaves after the constructor and after
\* every growth step, and getDecisionTree() gives the same flat classifier.
C4_GrowthIsDeterministic ==
    /\ pc \in {"constructed", "growing", "converted"} =>
          /\ tree.nodes = twin.nodes
          /\ tree.growableLeaves = twin.growableLeaves
          /\ tree.coin = twin.coin
    /\ pc = "converted" => classifier = out.classifier

\* C4 witness: the two runs hold equal feature values in different orders,
\* flipped the coin over a feature subset, split at least once and gave one
\* flat classifier.
C4_Witness ==
    /\ pc = "converted"
    /\ tree.featureIndex # twin.featureIndex
    /\ input.featuresToConsider < input.featureCount
    /\ Len(tree.nodes) >= 3
    /\ classifier = out.classifier

(***************************************************************************)
(* SpecClassifier: a DecisionTreeClassifier of up to five nodes, as        *)
(* getDecisionTree() lays them out (children appended in pairs, the root   *)
(* first), is handed a batch of feature values: to classifyAndVote with a  *)
(* vote table of the caller's, or to classify.                             *)
(***************************************************************************)
MaxBatch == 4        \* batches hold 0..MaxBatch feature values
MaxVotes == 1        \* the caller's table holds 0..MaxVotes in each cell

\* The rows of the five tables for a leaf and for an interior node.
LeafRow(label) == [left |-> 0, right |-> 0, feature |-> 0, value |-> 0, label |-> label]

InteriorRow(left, feature, value) ==
    [left |-> left, right |-> left + 1, feature |-> feature, value |-> value, label |-> 0]

\* DecisionTreeClassifier( classCount, featureCount ) with its tables filled
FlatClassifier(classCount, featureCount, rows) ==
    [classCount     |-> classCount,
     featureCount   |-> featureCount,
     leftChildID    |-> [n \in 1..Len(rows) |-> rows[n].left],
     rightChildID   |-> [n \in 1..Len(rows) |-> rows[n].right],
     splitFeatureID |-> [n \in 1..Len(rows) |-> rows[n].feature],
     splitValue     |-> [n \in 1..Len(rows) |-> rows[n].value],
     label          |-> [n \in 1..Len(rows) |-> rows[n].label]]

\* Split values: growth splits at a value that has a lower value to its left.
SplitValues == 1..MaxValue

\* The node tables of one, three and five nodes.
NodeTables(featureCount) ==
    LET Leaves    == {LeafRow(l) : l \in Classes}
        Interiors(left) ==
            {InteriorRow(left, f, v) : f \in 0..(featureCount - 1), v \in SplitValues}
    IN  {<<a>> : a \in Leaves}
        \cup {<<r, a, b>> : r \in Interiors(1), a \in Leaves, b \in Leaves}
        \cup {<<r, n, a, b, c>> :
                 r \in Interiors(1), n \in Interiors(3),
                 a \in Leaves, b \in Leaves, c \in Leaves}
        \cup {<<r, a, n, b, c>> :
                 r \in Interiors(1), n \in Interiors(3),
                 a \in Leaves, b \in Leaves, c \in Leaves}

FlatClassifiers ==
    {FlatClassifier(MaxClass + 1, featureCount, rows) :
        featureCount \in {MaxFeatures}, rows \in NodeTables(MaxFeatures)}
    \cup {FlatClassifier(MaxClass + 1, 1, rows) : rows \in NodeTables(1)}

\* Batches of feature values, NaN among them, of every length up to MaxBatch.
Batches == UNION {[1..n -> Values \cup {NaN}] : n \in 0..MaxBatch}

\* The vote tables a caller hands over: every cell k, or cells that differ.
CallerTables(rowCount, columnCount) ==
    {[row \in 1..rowCount |-> [column \in 1..columnCount |-> k]] : k \in 0..MaxVotes}
    \cup {[row \in 1..rowCount |-> [column \in 1..columnCount |-> (row + column) % 2]]}

ClassifierCalls(c) ==
    {[op |-> "classify", points |-> points] : points \in Batches}
    \cup UNION {
        {[op |-> "classifyAndVote", points |-> points, table |-> t] :
            t \in CallerTables(Len(points) \div c.featureCount, c.classCount)}
        : points \in Batches}

ClassifierInit ==
    /\ pc = "call"
    /\ classifier \in FlatClassifiers
    /\ input \in ClassifierCalls(classifier)
    /\ out = NoCall
    /\ tree = NoTree
    /\ twin = NoTree
    /\ lft = LabelFrequencyTable(0)
    /\ lftOut = NoQuery
    /\ ensemble = NoEnsemble
    /\ callerTable = NoTable
    /\ workers = NoWorkers
    /\ jobQueue = EmptyQueue
    /\ earlier = NoCall

\* DecisionTreeClassifier::classifyAndVote on the caller's table.
TreeClassifyAndVote ==
    /\ pc = "call"
    /\ input.op = "classifyAndVote"
    /\ LET voted == classifyAndVote(classifier, input.points, input.table)
       IN  /\ out' = [op |-> "classifyAndVote"] @@ voted
           /\ pc' = IF voted.error = "none" THEN "returned" ELSE voted.error
    /\ UNCHANGED <<input, tree, twin, classifier, tableVars, ensembleVars>>

\* DecisionTreeClassifier::classify.
TreeClassify ==
    /\ pc = "call"
    /\ input.op = "classify"
    /\ LET labelled == classify(classifier, input.points)
       IN  /\ out' = [op |-> "classify"] @@ labelled
           /\ pc' = IF labelled.error = "none" THEN "returned" ELSE labelled.error
    /\ UNCHANGED <<input, tree, twin, classifier, tableVars, ensembleVars>>

ClassifierNext ==
    \/ TreeClassifyAndVote
    \/ TreeClassify

SpecClassifier == ClassifierInit /\ [][ClassifierNext]_vars

(***************************************************************************)
(* Claims on the DecisionTreeClassifier.                                   *)
(***************************************************************************)
\* The label of the leaf a point reaches walking down from node `node`: left
\* when the point's split feature is below the split value, right otherwise.
RECURSIVE WalkedLeafLabel(_, _, _, _)
WalkedLeafLabel(c, points, point, node) ==
    IF c.leftChildID[node + 1] = 0 THEN c.label[node + 1]
    ELSE LET value == points[point * c.featureCount + c.splitFeatureID[node + 1] + 1]
         IN  IF value # NaN /\ value < c.splitValue[node + 1]
             THEN WalkedLeafLabel(c, points, point, c.leftChildID[node + 1])
             ELSE WalkedLeafLabel(c, points, point, c.rightChildID[node + 1])

\* The lowest column among those that hold the highest count of a row.
LowestMaximumColumn(row) ==
    CHOOSE column \in 0..(Len(row) - 1) :
        /\ \A other \in 0..(Len(row) - 1) : row[other + 1] <= row[column + 1]
        /\ \A lower \in 0..(column - 1) : row[lower + 1] < row[column + 1]

\* The feature values of one point of the batch.
BatchPoint(point) ==
    SubSeq(input.points, point * classifier.featureCount + 1,
           (point + 1) * classifier.featureCount)

C6_ClassifyIsArgMaxOfClassifyAndVote ==
    (pc = "returned" /\ input.op = "classify") =>
        LET pointCount == Len(input.points) \div classifier.featureCount
            batchVotes == classifyAndVote(classifier, input.points,
                              VoteTable(pointCount, classifier.classCount)).table
            PointVotes(point) ==
                classifyAndVote(classifier, BatchPoint(point),
                                VoteTable(1, classifier.classCount)).table
        IN  /\ Len(out.labels) = pointCount
            /\ \A point \in 0..(pointCount - 1) :
                  /\ out.labels[point + 1] = LowestMaximumColumn(batchVotes[point + 1])
                  /\ out.labels[point + 1] = LowestMaximumColumn(PointVotes(point)[1])

\* C6 witness: classify labelled two points of a batch differently.
C6_Witness ==
    /\ pc = "returned"
    /\ input.op = "classify"
    /\ \E p, q \in 1..Len(out.labels) : out.labels[p] = 0 /\ out.labels[q] = 1 /\ p < q

(***************************************************************************)
(* SpecEnsemble: an EnsembleClassifier over a stream of up to MaxTrees     *)
(* classifiers, with up to MaxWorkers worker threads, is handed a batch:   *)
(* to classify, or to classifyAndVote with a vote table of the caller's.   *)
(* The calling thread's position is pc; the worker threads take their      *)
(* steps in any order between its steps.                                   *)
(***************************************************************************)
MaxTrees == 2        \* the stream holds 0..MaxTrees classifiers
MaxWorkers == 2      \* maxWorkerThreads is 0..MaxWorkers
MaxWeight == 2       \* class weights are 0..MaxWeight

\* The classifiers of the stream: a leaf, and the stumps over MaxFeatures
\* features.
StreamClassifiers ==
    {FlatClassifier(MaxClass + 1, MaxFeatures, <<LeafRow(MaxClass)>>)}
    \cup {FlatClassifier(MaxClass + 1, MaxFeatures,
                         <<InteriorRow(1, f, v), LeafRow(0), LeafRow(MaxClass)>>) :
             f \in 0..(MaxFeatures - 1), v \in SplitValues}

\* Batches of feature values of every length up to MaxBatch.
EnsembleBatches == UNION {[1..n -> Values] : n \in 0..MaxBatch}

ClassWeights == {w \in [1..(MaxClass + 1) -> 0..MaxWeight] : w[1] = 1}

\* The ensembles: the stream is new, or an earlier pass has read it through.
Ensembles ==
    UNION {
        {EnsembleClassifier(classifiers, position, MaxClass + 1, MaxFeatures, W) :
            position \in {0, Len(classifiers)}, W \in 0..MaxWorkers}
        : classifiers \in UNION {[1..n -> StreamClassifiers] : n \in 0..MaxTrees}}

EnsembleCalls ==
    {[op |-> "classify", points |-> points, weights |-> w] :
        points \in EnsembleBatches, w \in ClassWeights}
    \cup UNION {
        {[op |-> "classifyAndVote", points |-> points, table |-> t] :
            t \in CallerTables(Len(points) \div MaxFeatures, MaxClass + 1)}
        : points \in EnsembleBatches}

EnsembleInit ==
    /\ pc = "call"
    /\ input \in EnsembleCalls
    /\ \E e \in Ensembles :
          ensemble = IF input.op = "classify" THEN setClassWeights(e, input.weights) ELSE e
    /\ callerTable = IF input.op = "classify" THEN NoTable ELSE input.table
    /\ workers = NoWorkers
    /\ jobQueue = EmptyQueue
    /\ earlier = NoCall
    /\ out = NoCall
    /\ tree = NoTree
    /\ twin = NoTree
    /\ classifier = NoClassifier
    /\ lft = LabelFrequencyTable(0)
    /\ lftOut = NoQuery

\* EnsembleClassifier::classify up to its call of classifyAndVote: the check
\* of the dimensions and the vote table it creates.
EnsembleClassify ==
    /\ pc = "call"
    /\ input.op = "classify"
    /\ IF Len(input.points) % ensemble.featureCount # 0
       THEN /\ pc' = "ClientError"
            /\ UNCHANGED callerTable
       ELSE /\ pc' = "classifyAndVote"
            /\ callerTable' = VoteTable(Len(input.points) \div ensemble.featureCount,
                                        ensemble.classCount)
    /\ UNCHANGED <<input, out, ensemble, workers, jobQueue, tree, twin, classifier, tableVars, earlier>>

\* classifyAndVote is entered: by the caller, or from classify.
AtClassifyAndVote ==
    \/ pc = "classifyAndVote"
    \/ pc = "call" /\ input.op = "classifyAndVote"

\* classifyAndVote with no worker threads: classifyAndVoteSingleThreaded.
ClassifyAndVoteSingleThreaded ==
    /\ AtClassifyAndVote
    /\ ~(ensemble.maxWorkerThreads > 0)
    /\ LET voted == classifyAndVoteSingleThreaded(ensemble, input.points, callerTable)
       IN  /\ callerTable' = voted.table
           /\ ensemble' = voted.stream
           /\ out' = [op |-> "classifyAndVote", voterCount |-> voted.voters]
           /\ pc' = IF voted.error = "none" THEN "voted" ELSE voted.error
    /\ UNCHANGED <<input, workers, jobQueue, tree, twin, classifier, tableVars, earlier>>

\* classifyAndVoteMultiThreaded is entered: the stream is rewound and the
\* job queue created.
EnterMultiThreaded ==
    /\ AtClassifyAndVote
    /\ ensemble.maxWorkerThreads > 0
    /\ ensemble' = rewind(ensemble)
    /\ jobQueue' = EmptyQueue
    /\ workers' = NoWorkers
    /\ out' = [op |-> "classifyAndVote", voterCount |-> 0, stopsToSend |-> 0]
    /\ pc' = "create"
    /\ UNCHANGED <<input, callerTable, tree, twin, classifier, tableVars, earlier>>

\* One iteration of the loop that creates the workers.
CreateWorker ==
    /\ pc = "create"
    /\ workers' = Append(workers, WorkerThread(ensemble.classCount, ensemble.featureCount,
                                                input.points))
    /\ pc' = IF Len(workers') < ensemble.maxWorkerThreads THEN "create" ELSE "start"
    /\ UNCHANGED <<input, out, ensemble, callerTable, jobQueue, tree, twin, classifier, tableVars, earlier>>

\* One iteration of the loop that starts the workers: WorkerThread::start.
StartWorker ==
    /\ pc = "start"
    /\ LET i == CHOOSE i \in 1..Len(workers) :
                    /\ workers[i].state = "created"
                    /\ \A j \in 1..(i - 1) : workers[j].state # "created"
       IN  /\ workers' = [workers EXCEPT ![i].running = TRUE, ![i].state = "receiving"]
           /\ pc' = IF i < Len(workers) THEN "start" ELSE "send"
    /\ UNCHANGED <<input, out, ensemble, callerTable, jobQueue, tree, twin, classifier, tableVars, earlier>>

\* One iteration of the loop that sends the classifiers of the stream.
SendJob ==
    /\ pc = "send"
    /\ HasNext(ensemble)
    /\ jobQueue' = send(jobQueue, WorkerJob(next(ensemble).classifier))
    /\ ensemble' = next(ensemble).stream
    /\ out' = [out EXCEPT !.voterCount = @ + 1]
    /\ UNCHANGED <<pc, input, callerTable, workers, tree, twin, classifier, tableVars, earlier>>

\* The end of the sending loop with one stop message more than workers
EndOfStreamOneStopMore ==
    /\ pc = "send"
    /\ ~HasNext(ensemble)
    /\ out' = [out EXCEPT !.stopsToSend = Len(workers) + 1]
    /\ pc' = "stop"
    /\ UNCHANGED <<input, ensemble, callerTable, workers, jobQueue, tree, twin, classifier, tableVars, earlier>>

\* next() returns an empty pointer: the sending loop ends.
EndOfStream ==
    /\ pc = "send"
    /\ ~HasNext(ensemble)
    /\ out' = [out EXCEPT !.stopsToSend = Len(workers)]
    /\ pc' = "stop"
    /\ UNCHANGED <<input, ensemble, callerTable, workers, jobQueue, tree, twin, classifier, tableVars, earlier>>

\* One iteration of the loop that sends the stop messages.
SendStop ==
    /\ pc = "stop"
    /\ out.stopsToSend > 0
    /\ jobQueue' = send(jobQueue, NullJob)
    /\ out' = [out EXCEPT !.stopsToSend = @ - 1]
    /\ pc' = IF out.stopsToSend > 1 THEN "stop" ELSE "join"
    /\ UNCHANGED <<input, ensemble, callerTable, workers, tree, twin, classifier, tableVars, earlier>>

\* One iteration of the loop that joins the workers: WorkerThread::join
\* returns once the worker's thread has ended.
JoinWorker ==
    /\ pc = "join"
    /\ LET i == CHOOSE i \in 1..Len(workers) :
                    /\ workers[i].running
                    /\ \A j \in 1..(i - 1) : ~workers[j].running
       IN  /\ workers[i].state = "ended"
           /\ workers' = [workers EXCEPT ![i].running = FALSE]
           /\ pc' = IF i < Len(workers) THEN "join" ELSE "merge"
    /\ UNCHANGED <<input, out, ensemble, callerTable, jobQueue, tree, twin, classifier, tableVars, earlier>>

\* The loop that adds the workers' votes to the caller's table, and the
\* return of classifyAndVoteMultiThreaded.
MergeWorkerVotes ==
    /\ pc = "merge"
    /\ callerTable' = MergeVoteCounts(callerTable, workers)
    /\ pc' = "voted"
    /\ UNCHANGED <<input, out, ensemble, workers, jobQueue, tree, twin, classifier, tableVars, earlier>>

\* classifyAndVote has returned: to the caller, or to classify, which writes
\* the labels.
EnsembleReturn ==
    /\ pc = "voted"
    /\ out' = IF input.op = "classify"
              THEN [op         |-> "classify",
                    voterCount |-> out.voterCount,
                    labels     |-> EnsembleLabelsOfVotes(callerTable, Len(callerTable),
                                                         ensemble.classWeights)]
              ELSE [op |-> "classifyAndVote", voterCount |-> out.voterCount]
    /\ pc' = "returned"
    /\ UNCHANGED <<input, ensemble, callerTable, workers, jobQueue, tree, twin, classifier, tableVars, earlier>>

\* No thread has let an exception escape: the process runs.
ProcessRuns == pc # "terminated"

\* processJobs of worker w: receive() returns a job; the null job ends the
\* thread.
WorkerReceive(w) ==
    /\ ProcessRuns
    /\ workers[w].state = "receiving"
    /\ CanReceive(jobQueue)
    /\ LET got == receive(jobQueue)
       IN  /\ jobQueue' = got.queue
           /\ workers' = [workers EXCEPT
                   ![w].job = got.message,
                   ![w].state = IF got.message = NullJob THEN "ended" ELSE "voting"]
    /\ UNCHANGED <<pc, input, out, ensemble, callerTable, tree, twin, classifier, tableVars, earlier>>

\* processJobs of worker w with the job's classifier voting on the table of
\* the caller
WorkerVoteOnCallerTable(w) ==
    /\ ProcessRuns
    /\ workers[w].state = "voting"
    /\ LET voted == classifyAndVote(workers[w].job.classifier, input.points, callerTable)
       IN  IF voted.error = "none"
           THEN /\ callerTable' = voted.table
                /\ workers' = [workers EXCEPT ![w].state = "receiving"]
                /\ UNCHANGED pc
           ELSE /\ pc' = "terminated"
                /\ UNCHANGED <<workers, callerTable>>
    /\ UNCHANGED <<input, out, ensemble, jobQueue, tree, twin, classifier, tableVars, earlier>>

\* processJobs of worker w with the job's classifier voting twice
WorkerVoteTwice(w) ==
    /\ ProcessRuns
    /\ workers[w].state = "voting"
    /\ LET voted == classifyAndVote(workers[w].job.classifier, input.points,
                                    workers[w].voteCounts)
           again == classifyAndVote(workers[w].job.classifier, input.points, voted.table)
       IN  IF voted.error = "none"
           THEN /\ workers' = [workers EXCEPT ![w].voteCounts = again.table,
                                              ![w].state = "receiving"]
                /\ UNCHANGED pc
           ELSE /\ pc' = "terminated"
                /\ UNCHANGED workers
    /\ UNCHANGED <<input, out, ensemble, callerTable, jobQueue, tree, twin, classifier, tableVars, earlier>>

\* processJobs of worker w: the job's classifier votes on the worker's own
\* table.  The ClientError of a classifier leaves the thread's function:
\* std::terminate ends the process.
WorkerVote(w) ==
    /\ ProcessRuns
    /\ workers[w].state = "voting"
    /\ LET voted == classifyAndVote(workers[w].job.classifier, input.points,
                                    workers[w].voteCounts)
       IN  IF voted.error = "none"
           THEN /\ workers' = [workers EXCEPT ![w].voteCounts = voted.table,
                                              ![w].state = "receiving"]
                /\ UNCHANGED pc
           ELSE /\ pc' = "terminated"
                /\ UNCHANGED workers
    /\ UNCHANGED <<input, out, ensemble, callerTable, jobQueue, tree, twin, classifier, tableVars, earlier>>

\* The caller calls classify once more on the same ensemble and the same
\* input: the stream is where the first call left it, the locals of the
\* first call are gone, and the caller keeps the labels it was given.
ClassifyAgain ==
    /\ pc = "returned"
    /\ input.op = "classify"
    /\ earlier = NoCall
    /\ earlier' = out
    /\ out' = NoCall
    /\ callerTable' = NoTable
    /\ workers' = NoWorkers
    /\ jobQueue' = EmptyQueue
    /\ pc' = "call"
    /\ UNCHANGED <<input, ensemble, tree, twin, classifier, tableVars>>

EnsembleNext ==
    \/ EnsembleClassify
    \/ ClassifyAndVoteSingleThreaded
    \/ EnterMultiThreaded
    \/ CreateWorker
    \/ StartWorker
    \/ SendJob
    \/ EndOfStream
    \/ SendStop
    \/ JoinWorker
    \/ MergeWorkerVotes
    \/ EnsembleReturn
    \/ ClassifyAgain
    \/ \E w \in 1..Len(workers) : WorkerReceive(w)
    \/ \E w \in 1..Len(workers) : WorkerVote(w)

SpecEnsemble == EnsembleInit /\ [][EnsembleNext]_vars

(***************************************************************************)
(* Claims on the EnsembleClassifier.                                       *)
(***************************************************************************)
\* The table classifyAndVote was handed.
HandedTable ==
    IF input.op = "classify"
    THEN VoteTable(Len(input.points) \div ensemble.featureCount, ensemble.classCount)
    ELSE input.table

\* What the path without worker threads does on the same stream, batch and
\* table.
SingleThreadedOutcome ==
    classifyAndVoteSingleThreaded(ensemble, input.points, HandedTable)

\* The sum of all cells of a vote table.
VotesIn(t) == SumSeq([row \in 1..Len(t) |-> SumSeq(t[row])])

\* C2: with one worker thread or more, under every interleaving of the
\* workers, classifyAndVote leaves the caller's vote table equal cell by cell
\* to the table the path without workers produces for the same input and
\* table, returns the same voter count, and classify writes the same labels.
C2_MultiThreadedEqualsSingleThreaded ==
    (ensemble.maxWorkerThreads >= 1 /\ pc \in {"voted", "returned", "terminated"}) =>
        /\ callerTable = SingleThreadedOutcome.table
        /\ pc \in {"voted", "returned"} =>
              /\ SingleThreadedOutcome.error = "none"
              /\ out.voterCount = SingleThreadedOutcome.voters
        /\ (pc = "returned" /\ input.op = "classify") =>
              out.labels = EnsembleLabelsOfVotes(SingleThreadedOutcome.table,
                                                 Len(SingleThreadedOutcome.table),
                                                 ensemble.classWeights)

\* C2 witness: two workers each voted with a classifier of the stream, and
\* their votes were added to a caller's table that held votes before.
C2_Witness ==
    /\ pc = "returned"
    /\ input.op = "classifyAndVote"
    /\ Len(workers) = 2
    /\ \A w \in 1..2 : VotesIn(workers[w].voteCounts) > 0
    /\ workers[1].voteCounts # workers[2].voteCounts
    /\ VotesIn(input.table) > 0
    /\ VotesIn(callerTable) > VotesIn(input.table)

\* The lowest class among those whose weighted vote count is highest.
LowestWeightedMaximum(row, weights) ==
    CHOOSE class \in 0..(Len(row) - 1) :
        /\ \A other \in 0..(Len(row) - 1) :
              row[other + 1] * weights[other + 1] <= row[class + 1] * weights[class + 1]
        /\ \A lower \in 0..(class - 1) :
              row[lower + 1] * weights[lower + 1] < row[class + 1] * weights[class + 1]

\* The vote rows of the example: (5,3), (2,6), (4,4).
ExampleVotes == <<(<<5, 3>>), (<<2, 6>>), (<<4, 4>>)>>

\* C7: EnsembleClassifier::classify gives each point the class that
\* maximises votes[point, class] * weight[class], the lowest such class when
\* several do; the rows (5,3), (2,6), (4,4) give labels 0,1,0 under weights
\* (1,1) and 1,1,1 under weights (1,2).
C7_ClassifyIsLowestWeightedMaximum ==
    (pc = "returned" /\ input.op = "classify") =>
        /\ Len(out.labels) = Len(input.points) \div ensemble.featureCount
        /\ \A point \in 1..Len(out.labels) :
              out.labels[point] =
                  LowestWeightedMaximum(callerTable[point], ensemble.classWeights)
        /\ EnsembleLabelsOfVotes(ExampleVotes, 3, <<1, 1>>) = <<0, 1, 0>>
        /\ EnsembleLabelsOfVotes(ExampleVotes, 3, <<1, 2>>) = <<1, 1, 1>>

\* C7 witness: a point with one vote for each class is given class 1 by the
\* weights (1,2), and a point with two votes for class 0 keeps class 0.
C7_Witness ==
    /\ pc = "returned"
    /\ input.op = "classify"
    /\ ensemble.classWeights = <<1, 2>>
    /\ \E p, q \in 1..Len(out.labels) :
          /\ callerTable[p] = <<1, 1>> /\ out.labels[p] = 1
          /\ callerTable[q] = <<2, 0>> /\ out.labels[q] = 0

\* The input length is not divisible by the feature count.
MalformedInput == Len(input.points) % ensemble.featureCount # 0

\* C8: when the input length is not divisible by the feature count, classify
\* and classifyAndVote, with and without worker threads, fail with a
\* ClientError before any worker thread is created or started, and no cell
\* of the caller's vote table is modified.
C8_MalformedInputRejectedBeforeWorkers ==
    MalformedInput =>
        /\ workers = NoWorkers
        /\ pc \in {"call", "ClientError"}
        /\ input.op = "classifyAndVote" => callerTable = input.table

\* C22: every batch of the ensemble applies every classifier of the stream
\* once, wherever an earlier batch left the stream: classifyAndVote counts as
\* many voters as the stream holds classifiers and leaves the stream read
\* through, and a second call of classify on the same ensemble and input
\* returns the labels of the first, for W = 0 and for W > 0.
C22_RepeatedClassifyGivesSameLabels ==
    /\ pc \in {"voted", "returned"} =>
          /\ out.voterCount = Len(ensemble.classifiers)
          /\ ensemble.position = Len(ensemble.classifiers)
    /\ (pc = "returned" /\ earlier # NoCall) =>
          /\ out.voterCount = earlier.voterCount
          /\ out.labels = earlier.labels

\* C22 witness: a second call of classify, on a stream of two classifiers
\* the first call had read through, gave two points different labels, with
\* worker threads.
C22_Witness ==
    /\ pc = "returned"
    /\ earlier # NoCall
    /\ ensemble.maxWorkerThreads > 0
    /\ Len(ensemble.classifiers) = 2
    /\ \E p, q \in 1..Len(out.labels) : out.labels[p] = 0 /\ out.labels[q] = 1
    /\ out.labels = earlier.labels

\* classifyAndVoteMultiThreaded is running or has returned.
InMultiThreaded ==
    /\ ensemble.maxWorkerThreads > 0
    /\ pc \in {"create", "start", "send", "stop", "join", "merge", "voted", "returned"}

\* The stop messages in the job queue.
StopsQueued == Cardinality({i \in 1..Len(jobQueue) : jobQueue[i] = NullJob})

\* The workers whose processJobs has received a stop message and ended.
EndedWorkers == {w \in 1..Len(workers) : workers[w].state = "ended"}

\* C24: with worker threads the producer sends W stop messages, none
\* before the sending loop has ended and so all behind the last classifier;
\* every stop message sent is in the queue or has ended one worker, whose
\* last job it is; and once all W workers have ended the queue is empty.
C24_OneStopMessagePerWorker ==
    /\ \A i, j \in 1..Len(jobQueue) :
          (i < j /\ jobQueue[i] = NullJob) => jobQueue[j] = NullJob
    /\ \A w \in EndedWorkers : workers[w].job = NullJob
    /\ InMultiThreaded =>
          LET W == ensemble.maxWorkerThreads
          IN  /\ StopsQueued + Cardinality(EndedWorkers) =
                    CASE pc \in {"create", "start", "send"} -> 0
                      [] pc = "stop" -> W - out.stopsToSend
                      [] OTHER -> W
              /\ pc = "stop" => (HasNext(ensemble) = FALSE /\ out.stopsToSend \in 1..W)
              /\ Cardinality(EndedWorkers) = W => jobQueue = EmptyQueue
              /\ pc \in {"merge", "voted", "returned"} =>
                    (Cardinality(EndedWorkers) = W /\ jobQueue = EmptyQueue)

\* C24 witness: two workers have ended, each on a stop message sent after
\* the two classifiers of the stream, which they had voted with.
C24_Witness ==
    /\ InMultiThreaded
    /\ pc = "join"
    /\ Len(ensemble.classifiers) = 2
    /\ EndedWorkers = {1, 2}
    /\ \A w \in 1..2 : VotesIn(workers[w].voteCounts) > 0
    /\ jobQueue = EmptyQueue

\* The classifiers sent to the workers and not yet voted with: those in the
\* queue and those a worker has received.
PendingClassifiers ==
    LET queued == SelectSeq(jobQueue, LAMBDA job : job # NullJob)
        voting == SelectSeq(workers, LAMBDA worker : worker.state = "voting")
    IN  [i \in 1..Len(queued) |-> queued[i].classifier]
            \o [i \in 1..Len(voting) |-> voting[i].job.classifier]

\* The table after each classifier of the list has voted once on the batch.
VotedOnceBy(classifiers, votes) ==
    classifyAndVoteSingleThreaded([ensemble EXCEPT !.classifiers = classifiers],
                                  input.points, votes).table

\* The votes in the workers' tables, added up.
WorkerVotes ==
    MergeVoteCounts(VoteTable(Len(input.points) \div ensemble.featureCount,
                              ensemble.classCount), workers)

\* C25: with worker threads, under every interleaving, the votes in the
\* workers' tables together with one vote of every classifier sent and not
\* yet voted with are one vote of every classifier the stream has yielded:
\* no classifier is lost or votes twice; the voter count is the number of
\* classifiers yielded, and at the return all of the stream have voted.
C25_EveryTreeVotesOnce ==
    InMultiThreaded =>
        /\ VotedOnceBy(PendingClassifiers, WorkerVotes) =
              VotedOnceBy(SubSeq(ensemble.classifiers, 1, ensemble.position),
                          VoteTable(Len(input.points) \div ensemble.featureCount,
                                    ensemble.classCount))
        /\ out.voterCount = ensemble.position
        /\ pc \in {"merge", "voted", "returned"} =>
              /\ PendingClassifiers = << >>
              /\ out.voterCount = Len(ensemble.classifiers)

\* C25 witness: of two classifiers that vote differently the second was
\* applied by worker 1 and the first by worker 2.
C25_Witness ==
    /\ InMultiThreaded
    /\ pc = "returned"
    /\ Len(workers) = 2
    /\ Len(ensemble.classifiers) = 2
    /\ out.voterCount = 2
    /\ VotesIn(workers[1].voteCounts) > 0
    /\ workers[1].voteCounts # workers[2].voteCounts
    /\ workers[1].voteCounts =
          classifyAndVote(ensemble.classifiers[2], input.points,
                          VoteTable(Len(input.points) \div ensemble.featureCount,
                                    ensemble.classCount)).table
    /\ workers[2].voteCounts =
          classifyAndVote(ensemble.classifiers[1], input.points,
                          VoteTable(Len(input.points) \div ensemble.featureCount,
                                    ensemble.classCount)).table

(***************************************************************************)
(* SpecEnsembleFair: SpecEnsemble with threads that are scheduled fairly:  *)
(* the calling thread, and each std::thread a worker was started with,     *)
(* takes its next step if that step stays possible.  A thread blocked in   *)
(* receive() or join(), and every thread of a terminated process, has no   *)
(* step to take.                                                           *)
(***************************************************************************)
CallerStep ==
    \/ EnsembleClassify
    \/ ClassifyAndVoteSingleThreaded
    \/ EnterMultiThreaded
    \/ CreateWorker
    \/ StartWorker
    \/ SendJob
    \/ EndOfStream
    \/ SendStop
    \/ JoinWorker
    \/ MergeWorkerVotes
    \/ EnsembleReturn
    \/ ClassifyAgain

WorkerStep(w) ==
    /\ w \in 1..Len(workers)
    /\ (WorkerReceive(w) \/ WorkerVote(w))

SpecEnsembleFair ==
    /\ EnsembleInit
    /\ [][EnsembleNext]_vars
    /\ WF_vars(CallerStep)
    /\ \A w \in 1..MaxWorkers : WF_vars(WorkerStep(w))

\* The state of worker w in the worker's state machine: Idle until started,
\* Running until it receives the stop message, Draining until joined.
WorkerState(ws, w) ==
    CASE ws[w].state = "created" -> "Idle"
      [] ws[w].state \in {"receiving", "voting"} -> "Running"
      [] ws[w].state = "ended" /\ ws[w].running -> "Draining"
      [] OTHER -> "Joined"

\* Every worker of the call is Joined.
AllJoined ==
    /\ Len(workers) = ensemble.maxWorkerThreads
    /\ \A w \in 1..Len(workers) : WorkerState(workers, w) = "Joined"

\* A step leaves every worker in its state or moves it to the next one.
WorkersStepInOrder ==
    \A w \in 1..Len(workers) :
        w \in 1..Len(workers') =>
            \/ WorkerState(workers', w) = WorkerState(workers, w)
            \/ <<WorkerState(workers, w), WorkerState(workers', w)>> \in
                  {<<"Idle", "Running">>, <<"Running", "Draining">>, <<"Draining", "Joined">>}

\* C26: for a finite stream and fair scheduling every worker moves through
\* Idle, Running, Draining, Joined in that order, every worker of a call of
\* classifyAndVoteMultiThreaded reaches Joined, and the call returns.
C26_WorkersJoinAndCallReturns ==
    /\ [][WorkersStepInOrder]_vars
    /\ (pc = "create") ~> AllJoined
    /\ (pc = "create") ~> (pc = "voted")

\* On a batch whose length the feature count divides, the workers join and
\* the call returns.
WellFormedCallReturns ==
    /\ [][WorkersStepInOrder]_vars
    /\ (pc = "create" /\ ~MalformedInput) ~> AllJoined
    /\ (pc = "create" /\ ~MalformedInput) ~> (pc = "voted")

\* The step is one of worker w's thread: the worker was receiving or
\* voting, and is no longer as it was.
StepOfWorker(w) ==
    /\ workers[w].state \in {"receiving", "voting"}
    /\ w \in 1..Len(workers')
    /\ workers'[w] # workers[w]

\* classifyAndVoteMultiThreaded has been entered and has not returned.
MultiThreadedRuns ==
    pc \in {"create", "start", "send", "stop", "join", "merge"}

\* C27: a step of a worker writes no vote table but the worker's own, and
\* that only when it votes: the caller's table and every other worker are
\* as before; and while classifyAndVoteMultiThreaded runs the caller's table
\* changes only in the merge, after every worker has been joined.
C27_WorkersWriteOwnTableOnly ==
    [][/\ \A w \in 1..Len(workers) :
             StepOfWorker(w) =>
                 /\ callerTable' = callerTable
                 /\ \A v \in 1..Len(workers) : v # w => workers'[v] = workers[v]
                 /\ workers'[w].voteCounts # workers[w].voteCounts =>
                       workers[w].state = "voting"
       /\ \A w \in 1..Len(workers) :
             (w \in 1..Len(workers') /\ workers'[w].voteCounts # workers[w].voteCounts) =>
                 StepOfWorker(w)
       /\ (MultiThreadedRuns /\ callerTable' # callerTable) =>
             (pc = "merge" /\ AllJoined)
      ]_vars

\* C27 witness: two workers hold votes that differ, both are joined, and
\* the merge has changed the caller's table, which held votes before.
C27_Witness ==
    /\ pc = "voted"
    /\ AllJoined
    /\ Len(workers) = 2
    /\ VotesIn(workers[1].voteCounts) > 0
    /\ VotesIn(workers[2].voteCounts) > 0
    /\ workers[1].voteCounts # workers[2].voteCounts
    /\ input.op = "classifyAndVote"
    /\ VotesIn(input.table) > 0
    /\ callerTable # input.table

(***************************************************************************)
(* SpecInference: a batch is handed to a single DecisionTreeClassifier     *)
(* (SpecClassifier) or to an EnsembleClassifier (SpecEnsemble).            *)
(***************************************************************************)
InferenceInit == ClassifierInit \/ EnsembleInit

InferenceNext ==
    \/ classifier # NoClassifier /\ ClassifierNext
    \/ classifier = NoClassifier /\ EnsembleNext

SpecInference == InferenceInit /\ [][InferenceNext]_vars

\* The batch holds no point.
EmptyBatch == input.points = << >>

\* C21: for a batch of zero points, classify writes no label and
\* classifyAndVote leaves the vote table as it was handed over, without an
\* error, for the single tree and for the ensemble with W = 0 and with W > 0.
C21_EmptyBatchWritesNothing ==
    (EmptyBatch /\ pc # "call") =>
        /\ pc \notin {"ClientError", "terminated"}
        /\ classifier # NoClassifier =>
              /\ input.op = "classify" => out.labels = << >>
              /\ input.op = "classifyAndVote" => out.table = input.table
        /\ classifier = NoClassifier =>
              /\ input.op = "classifyAndVote" => callerTable = input.table
              /\ (pc = "returned" /\ input.op = "classify") => out.labels = << >>
              /\ \A w \in 1..Len(workers) : workers[w].voteCounts = << >>

\* C21 witness: an ensemble of two workers and two trees, a stump among
\* them, has classified the batch without points.
C21_Witness ==
    /\ EmptyBatch
    /\ pc = "returned"
    /\ input.op = "classify"
    /\ Len(workers) = 2
    /\ out.voterCount = 2
    /\ \E t \in 1..Len(ensemble.classifiers) : Len(ensemble.classifiers[t].label) = 3
    /\ out.labels = << >>

(***************************************************************************)
(* SpecImportance: the feature-importance engine (FeatureImportances of    *)
(* modelevaluation.h, constructed by balsa_featureimportance.cpp), as      *)
(* section 4.7 of the specification describes it.  A model E, a matrix X   *)
(* of P points by M features, labels Y and a repeat count R: the baseline  *)
(* accuracy, then for each feature R shuffled copies of X, each scored.    *)
(* Accuracies are counts of correct points; an importance is the rational  *)
(* baseline - mean of the R accuracies.                                    *)
(***************************************************************************)
MaxRepeats == 2      \* the repeat count is 1..MaxRepeats

\* The matrix with cells i and j exchanged.
SwapCells(X, i, j) == [X EXCEPT ![i] = X[j], ![j] = X[i]]

\* The outcomes of shuffling column f of the copy in place, points
\* last..0 still to be placed: the point placed at `last` is any of them.
RECURSIVE ShuffleColumn(_, _, _, _)
ShuffleColumn(copy, M, f, last) ==
    IF last < 1 THEN {copy}
    ELSE UNION {ShuffleColumn(SwapCells(copy, last * M + f + 1, j * M + f + 1), M, f, last - 1) :
                   j \in 0..last}

\* A shuffled copy that shuffles the working copy of the iteration before
ShuffledCopiesOfWorkingCopy(X, working, M, f) ==
    ShuffleColumn(IF working = << >> THEN X ELSE working, M, f, (Len(X) \div M) - 1)

\* The shuffled copies X' of X for feature f: a fresh copy of X, column f
\* shuffled.  `working` is the copy the iteration before made.
ShuffledCopies(X, working, M, f) == ShuffleColumn(X, M, f, (Len(X) \div M) - 1)

\* The number of points E labels as Y does.
CorrectCount(E, X, Y) ==
    Cardinality({p \in 1..Len(Y) : classify(E, X).labels[p] = Y[p]})

ImportanceInit ==
    /\ pc = "evaluate"
    /\ input \in UNION {[X : [1..(P * MaxFeatures) -> Values], Y : [1..P -> Classes],
                         M : {MaxFeatures}, R : 1..MaxRepeats] : P \in 2..MaxPoints}
    /\ classifier \in StreamClassifiers
    /\ out = NoCall
    /\ tree = NoTree
    /\ twin = NoTree
    /\ lft = LabelFrequencyTable(0)
    /\ lftOut = NoQuery
    /\ ensemble = NoEnsemble
    /\ callerTable = NoTable
    /\ workers = NoWorkers
    /\ jobQueue = EmptyQueue
    /\ earlier = NoCall

\* Step 1: the baseline accuracy of E on X.
Baseline ==
    /\ pc = "evaluate"
    /\ out' = [op          |-> "importance",
               baseline    |-> CorrectCount(classifier, input.X, input.Y),
               feature     |-> 0,
               repeat      |-> 0,
               shuffled    |-> << >>,
               correct     |-> 0,
               importances |-> << >>]
    /\ pc' = "shuffle"
    /\ UNCHANGED <<input, tree, twin, classifier, tableVars, ensembleVars>>

\* Step 2a, one repeat for one feature: the shuffled copy is made and
\* scored; after the R-th repeat the feature's importance is written (2b)
\* and the next feature begins.
ShuffleAndScore ==
    /\ pc = "shuffle"
    /\ LET f == IF out.repeat = input.R THEN out.feature + 1 ELSE out.feature
           r == IF out.repeat = input.R THEN 1 ELSE out.repeat + 1
           P == Len(input.Y)
       IN  \E copy \in ShuffledCopies(input.X, out.shuffled, input.M, f) :
              LET sum == (IF r = 1 THEN 0 ELSE out.correct)
                         + CorrectCount(classifier, copy, input.Y)
              IN  /\ out' = [out EXCEPT
                          !.feature = f,
                          !.repeat = r,
                          !.shuffled = copy,
                          !.correct = sum,
                          !.importances =
                              IF r = input.R
                              THEN Append(@, Rat(out.baseline * input.R - sum, P * input.R))
                              ELSE @]
                  /\ pc' = IF r = input.R /\ f = input.M - 1 THEN "evaluated" ELSE "shuffle"
    /\ UNCHANGED <<input, tree, twin, classifier, tableVars, ensembleVars>>

ImportanceNext ==
    \/ Baseline
    \/ ShuffleAndScore

SpecImportance == ImportanceInit /\ [][ImportanceNext]_vars

\* Column f of the matrix, point by point.
ColumnOf(X, M, f) == [p \in 1..(Len(X) \div M) |-> X[(p - 1) * M + f + 1]]

\* How often a value occurs in a column.
Occurrences(column, v) == Cardinality({p \in 1..Len(column) : column[p] = v})

\* C23: every shuffled copy X' made for feature f holds in column f the
\* multiset of values of column f of X, and equals X in every other column:
\* no column shuffled for another feature or an earlier repeat is left
\* shuffled.
C23_ShuffledCopyDiffersInItsColumnOnly ==
    (pc \in {"shuffle", "evaluated"} /\ out.repeat > 0) =>
        /\ Len(out.shuffled) = Len(input.X)
        /\ \A v \in Values :
              Occurrences(ColumnOf(out.shuffled, input.M, out.feature), v)
                  = Occurrences(ColumnOf(input.X, input.M, out.feature), v)
        /\ \A g \in 0..(input.M - 1) :
              g # out.feature =>
                  ColumnOf(out.shuffled, input.M, g) = ColumnOf(input.X, input.M, g)

\* C23 witness: the second copy made for feature 1 differs from X in column
\* 1, after the copies made for feature 0, whose column is not constant.
C23_Witness ==
    /\ pc \in {"shuffle", "evaluated"}
    /\ out.feature = 1
    /\ out.repeat = 2
    /\ ColumnOf(out.shuffled, input.M, 1) # ColumnOf(input.X, input.M, 1)
    /\ \E p, q \in 1..Len(input.Y) :
          ColumnOf(input.X, input.M, 0)[p] # ColumnOf(input.X, input.M, 0)[q]

(***************************************************************************)
(* SpecPass: the first loop of findBestSplit over the features 0..M-1,     *)
(* with a coin of which only this is known: flip( k, n ) is true when      *)
(* k = n and false when k = 0.  Assertions are compiled out; assertFailed  *)
(* records that a condition asserted in the loop did not hold.             *)
(***************************************************************************)
MaxPassFeatures == 5 \* the pass runs over 1..MaxPassFeatures features

\* The answers flip( k, n ) can give.
FlipOutcomes(k, n) ==
    IF k = n THEN {TRUE} ELSE IF k = 0 THEN {FALSE} ELSE BOOLEAN

PassInit ==
    /\ pc = "pass"
    /\ input \in UNION {[featureCount : {M}, featuresToConsider : 1..M] :
                           M \in 1..MaxPassFeatures}
    /\ out = [op              |-> "findBestSplit",
              featureID       |-> 0,
              featuresToScan  |-> input.featuresToConsider,
              skippedFeatures |-> << >>,
              scanned         |-> << >>,
              assertFailed    |-> FALSE]
    /\ tree = NoTree
    /\ twin = NoTree
    /\ classifier = NoClassifier
    /\ lft = LabelFrequencyTable(0)
    /\ lftOut = NoQuery
    /\ ensemble = NoEnsemble
    /\ callerTable = NoTable
    /\ workers = NoWorkers
    /\ jobQueue = EmptyQueue
    /\ earlier = NoCall

\* An iteration in which the coin skips the feature.
SkipFeature ==
    /\ pc = "pass"
    /\ out.featureID < input.featureCount
    /\ FALSE \in FlipOutcomes(out.featuresToScan, input.featureCount - out.featureID)
    /\ out' = [out EXCEPT !.featureID = @ + 1,
                          !.skippedFeatures = Append(@, out.featureID)]
    /\ UNCHANGED <<pc, input, tree, twin, classifier, tableVars, ensembleVars>>

\* An iteration that keeps the credit it should use up
ConsiderFeatureKeepsCredit ==
    /\ pc = "pass"
    /\ out.featureID < input.featureCount
    /\ TRUE \in FlipOutcomes(out.featuresToScan, input.featureCount - out.featureID)
    /\ out' = [out EXCEPT !.featureID = @ + 1,
                          !.scanned = Append(@, out.featureID),
                          !.assertFailed = @ \/ ~(out.featuresToScan > 0)]
    /\ UNCHANGED <<pc, input, tree, twin, classifier, tableVars, ensembleVars>>

\* An iteration in which the coin considers the feature: a credit is used
\* up and the feature scanned.
ConsiderFeature ==
    /\ pc = "pass"
    /\ out.featureID < input.featureCount
    /\ TRUE \in FlipOutcomes(out.featuresToScan, input.featureCount - out.featureID)
    /\ out' = [out EXCEPT !.featureID = @ + 1,
                          !.featuresToScan = @ - 1,
                          !.scanned = Append(@, out.featureID),
                          !.assertFailed = @ \/ ~(out.featuresToScan > 0)]
    /\ UNCHANGED <<pc, input, tree, twin, classifier, tableVars, ensembleVars>>

\* The end of the loop and the assertion on the number of skipped features.
EndOfPass ==
    /\ pc = "pass"
    /\ ~(out.featureID < input.featureCount)
    /\ out' = [out EXCEPT !.assertFailed =
                   @ \/ Len(out.skippedFeatures) #
                            input.featureCount - input.featuresToConsider]
    /\ pc' = "passed"
    /\ UNCHANGED <<input, tree, twin, classifier, tableVars, ensembleVars>>

PassNext ==
    \/ SkipFeature
    \/ ConsiderFeature
    \/ EndOfPass

SpecPass == PassInit /\ [][PassNext]_vars

\* C31: for every outcome of a coin whose flip( k, n ) is true when k = n
\* and false when k = 0, the pass over the features 0..M-1 scans exactly
\* featuresToConsider features and skips the M - featuresToConsider others,
\* and neither assertion of the loop fails.
C31_PassChoosesExactlyK ==
    /\ out.assertFailed = FALSE
    /\ out.featuresToScan <= input.featureCount - out.featureID
    /\ Len(out.scanned) + out.featuresToScan = input.featuresToConsider
    /\ Len(out.scanned) + Len(out.skippedFeatures) = out.featureID
    /\ pc = "passed" =>
          /\ Len(out.scanned) = input.featuresToConsider
          /\ Len(out.skippedFeatures) = input.featureCount - input.featuresToConsider
          /\ {out.scanned[i] : i \in 1..Len(out.scanned)}
                 \cup {out.skippedFeatures[i] : i \in 1..Len(out.skippedFeatures)}
                 = 0..(input.featureCount - 1)

\* C31 witness: of five features two were to be considered; the coin
\* skipped the first, considered the second, skipped the third and the
\* fourth, and its last flip was certain.
C31_Witness ==
    /\ pc = "passed"
    /\ input.featureCount = 5
    /\ out.scanned = <<1, 4>>
    /\ out.skippedFeatures = <<0, 2, 3>>

(***************************************************************************)
(* SpecScan: the loop of getMostFrequentLabel, one iteration per step,     *)
(* with its counter of the 8-bit Label type:                               *)
(*     for ( Label l = 0; l < m_data.size(); ++l )                         *)
(* on the tables the two constructors build: the range constructor from    *)
(* one or two labels, the lowest and the highest label among them, and the *)
(* size constructor with the largest limit a Label can hold.               *)
(***************************************************************************)

\* Label is an unsigned type 8 bits wide: its values are the residues
\* modulo 256.
LabelModulus == 256

ScanInit ==
    /\ pc = "scan"
    /\ lft \in {LabelFrequencyTableFromRange(labels) :
                   labels \in UNION {[1..k -> {0, 1, LabelModulus - 1}] : k \in 1..2}}
               \cup {LabelFrequencyTable(LabelModulus - 1)}
    /\ lftOut = [op |-> "getMostFrequentLabel", l |-> 0, best |-> 0, bestCount |-> 0]
    /\ input = NoInput
    /\ tree = NoTree
    /\ twin = NoTree
    /\ classifier = NoClassifier
    /\ out = NoCall
    /\ ensemble = NoEnsemble
    /\ callerTable = NoTable
    /\ workers = NoWorkers
    /\ jobQueue = EmptyQueue
    /\ earlier = NoCall

\* One iteration of the loop, and ++l in the Label type.
ScanStep ==
    /\ pc = "scan"
    /\ lftOut.l < size(lft)
    /\ lftOut' =
          IF ~ULess(lftOut.bestCount, getCount(lft, lftOut.l))
          THEN [lftOut EXCEPT !.l = (@ + 1) % LabelModulus]
          ELSE [lftOut EXCEPT !.l = (@ + 1) % LabelModulus,
                              !.best = lftOut.l,
                              !.bestCount = getCount(lft, lftOut.l)]
    /\ UNCHANGED <<lft, treeVars, ensembleVars>>

\* The loop condition fails: return best.
ScanReturn ==
    /\ pc = "scan"
    /\ ~(lftOut.l < size(lft))
    /\ pc' = "returned"
    /\ UNCHANGED <<tableVars, input, tree, twin, classifier, out, ensembleVars>>

ScanNext ==
    \/ ScanStep
    \/ ScanReturn

\* The function, once called, keeps running.
SpecScan == ScanInit /\ [][ScanNext]_vars /\ WF_vars(ScanNext)

\* C37: getMostFrequentLabel terminates for every table the constructors
\* can build, including a table built from a label range that contains
\* label 255 (256 counters).
C37_ScanTerminates == <>(pc = "returned")

\* C37 for the tables of at most 255 counters: the scan returns, and returns
\* the lowest label with the highest count.
ScanOfShorterTableReturns ==
    /\ (size(lft) < LabelModulus) ~> (pc = "returned")
    /\ [](pc = "returned" =>
            \A l \in 0..(size(lft) - 1) :
                /\ getCount(lft, l) <= getCount(lft, lftOut.best)
                /\ l < lftOut.best => getCount(lft, l) < getCount(lft, lftOut.best))

\* On a table of 256 counters the counter comes back to 0 with the loop
\* still running.
ScanWrapsAround ==
    pc = "scan" /\ size(lft) = LabelModulus /\ lftOut.l = 0 /\ lftOut.bestCount > 0

(***************************************************************************)
(* SpecStream: a ClassifierOutputStream of some subclass, from its         *)
(* construction to its destruction (classifierstream.h).  The record       *)
(* counts the calls of close() and write() and the invocations of          *)
(* onClose(): of the subclass's override, and of the base class's own      *)
(* empty onClose(), which is what a call from the base class's destructor  *)
(* reaches.                                                                *)
(***************************************************************************)
MaxCloses == 7       \* close() is called 0..MaxCloses times

MaxWrites == 7       \* write() is called 0..MaxWrites times

\* ClassifierOutputStream()
StreamInit ==
    /\ pc = "stream"
    /\ out = [op |-> "ClassifierOutputStream", isClosed |-> FALSE,
              closeCalls |-> 0, writeCalls |-> 0,
              onCloseCalls |-> 0, baseOnCloseCalls |-> 0, assertFailed |-> FALSE]
    /\ input = NoInput
    /\ tree = NoTree
    /\ twin = NoTree
    /\ classifier = NoClassifier
    /\ lft = LabelFrequencyTable(0)
    /\ lftOut = NoQuery
    /\ ensemble = NoEnsemble
    /\ callerTable = NoTable
    /\ workers = NoWorkers
    /\ jobQueue = EmptyQueue
    /\ earlier = NoCall

\* isOpen()
isOpen(stream) == ~stream.isClosed

\* close(), called on the live object: onClose() is the subclass's.
StreamClose ==
    /\ pc = "stream"
    /\ out.closeCalls < MaxCloses
    /\ out' = IF out.isClosed
              THEN [out EXCEPT !.op = "close", !.closeCalls = @ + 1]
              ELSE [out EXCEPT !.op = "close", !.closeCalls = @ + 1,
                               !.onCloseCalls = @ + 1]
    /\ UNCHANGED <<pc, input, tree, twin, classifier, tableVars, ensembleVars>>

\* write( classifier ): the assertion, and nothing else.
StreamWrite ==
    /\ pc = "stream"
    /\ out.writeCalls < MaxWrites
    /\ out' = [out EXCEPT !.op = "write", !.writeCalls = @ + 1,
                          !.assertFailed = @ \/ ~isOpen(out)]
    /\ UNCHANGED <<pc, input, tree, twin, classifier, tableVars, ensembleVars>>

\* ~ClassifierOutputStream(): close(), in which onClose() is the base
\* class's, the subclass part of the object being destroyed already.
StreamDestroy ==
    /\ pc = "stream"
    /\ out' = IF out.isClosed
              THEN [out EXCEPT !.op = "destroy"]
              ELSE [out EXCEPT !.op = "destroy", !.baseOnCloseCalls = @ + 1]
    /\ pc' = "destroyed"
    /\ UNCHANGED <<input, tree, twin, classifier, tableVars, ensembleVars>>

StreamNext ==
    \/ StreamClose
    \/ StreamWrite
    \/ StreamDestroy

SpecStream == StreamInit /\ [][StreamNext]_vars

\* C38: after close() has been called isOpen() returns false, and over any
\* sequence of close() calls followed by destruction the subclass hook
\* onClose() is invoked exactly once.
C38_CloseClosesOnce ==
    /\ (pc = "stream" /\ out.closeCalls > 0) => ~isOpen(out)
    /\ pc = "destroyed" => out.onCloseCalls = 1

\* What holds instead: the stream never closes, every call of close()
\* invokes the subclass hook, and the destructor invokes the base class's
\* empty onClose().
StreamNeverCloses ==
    /\ isOpen(out)
    /\ out.onCloseCalls = out.closeCalls
    /\ out.baseOnCloseCalls = IF pc = "destroyed" THEN 1 ELSE 0
    /\ ~out.assertFailed

(***************************************************************************)
(* SpecLegacy: SingleTreeTrainer::train of the legacy trainer              *)
(* (datamodel.h), on binary-labelled training sets.  The training tree is  *)
(* an arena of TrainingTreeNode records; a node is named by its place in   *)
(* the arena, the root by 1, and child 0 stands for the null pointer.      *)
(* The counters are unsigned int: a count that ran below zero is kept as   *)
(* the negative number it is the residue of.  The doubles are exact        *)
(* rationals, as elsewhere.                                                *)
(***************************************************************************)
LegacyMaxPoints == 2     \* legacy training sets hold 1..LegacyMaxPoints points

LegacyMaxFeatures == 2   \* of 1..LegacyMaxFeatures features

\* unsigned int LIMIT = 4
LIMIT == 4

\* TrainingTreeNode()
TrainingTreeNode ==
    [leftChild |-> 0, rightChild |-> 0, splitFeatureID |-> 0, splitValue |-> 0,
     totalCount |-> 0, trueCount |-> 0,
     totalCountLeftHalf |-> 0, trueCountLeftHalf |-> 0, trueCountRightHalf |-> 0,
     currentFeature |-> 0,
     bestSplitFeature |-> 0, bestSplitValue |-> 0, bestSplitGiniIndex |-> Rat(0, 1)]

\* FeatureIndex( dataset ): per feature, the entries ( value, label, point )
\* in the order std::sort gives tuples: by value, then label, then point.
LegacyFeatureIndex(dataset) ==
    [f \in 1..dataset.featureCount |->
        LET Entry(p) == [featureValue |-> At(dataset.dataPoints, p * dataset.featureCount + f - 1),
                         label        |-> dataset.labels[p + 1],
                         pointID      |-> p]
            Before(a, b) ==
                \/ a.featureValue < b.featureValue
                \/ a.featureValue = b.featureValue /\ ~a.label /\ b.label
                \/ a.featureValue = b.featureValue /\ a.label = b.label /\ a.pointID < b.pointID
            order == CHOOSE s \in [1..dataset.pointCount -> 0..(dataset.pointCount - 1)] :
                        \A i, j \in 1..dataset.pointCount :
                            i < j => Before(Entry(s[i]), Entry(s[j]))
        IN  [i \in 1..dataset.pointCount |-> Entry(order[i])]]

\* The leaf under node id that the splits route the point to.
RECURSIVE LeafFor(_, _, _, _)
LeafFor(nodes, id, pointID, dataset) ==
    IF nodes[id].leftChild = 0 THEN id
    ELSE IF At(dataset.dataPoints, pointID * dataset.featureCount + nodes[id].splitFeatureID)
                < nodes[id].splitValue
         THEN LeafFor(nodes, nodes[id].leftChild, pointID, dataset)
         ELSE LeafFor(nodes, nodes[id].rightChild, pointID, dataset)

\* registerPoint( pointID, dataset ) on the point's current parent, for the
\* points from pointID on: the leaf counts the point and becomes its parent.
RECURSIVE RegisterPoints(_, _, _)
RegisterPoints(t, pointID, dataset) ==
    IF pointID >= dataset.pointCount THEN t
    ELSE LET leaf == LeafFor(t.nodes, t.pointParents[pointID + 1], pointID, dataset)
         IN  RegisterPoints(
                 [nodes        |-> [t.nodes EXCEPT
                                       ![leaf].totalCount = @ + 1,
                                       ![leaf].trueCount =
                                           IF dataset.labels[pointID + 1] THEN @ + 1 ELSE @],
                  pointParents |-> [t.pointParents EXCEPT ![pointID + 1] = leaf]],
                 pointID + 1, dataset)

\* initializeOptimalSplitSearch(), on the root and so on every node.
initializeOptimalSplitSearch(nodes) ==
    [n \in 1..Len(nodes) |->
        [nodes[n] EXCEPT !.trueCount = 0, !.totalCount = 0,
                         !.bestSplitFeature = 0, !.bestSplitValue = 0,
                         !.bestSplitGiniIndex = FloatMax]]

\* startFeatureTraversal( featureID ), on the root and so on every node.
startFeatureTraversal(nodes, featureID) ==
    [n \in 1..Len(nodes) |->
        [nodes[n] EXCEPT !.currentFeature = featureID,
                         !.trueCountLeftHalf = 0,
                         !.trueCountRightHalf = nodes[n].trueCount]]

\* The counters of a leaf after visitPoint has updated them.
Counted(node, label) ==
    [node EXCEPT !.trueCountLeftHalf  = IF label THEN @ + 1 ELSE @,
                 !.trueCountRightHalf = IF label THEN @ - 1 ELSE @,
                 !.totalCountLeftHalf = @ + 1]

\* giniTotal of visitPoint, from the updated counters, where the right half
\* holds at least one point (totalCountRightHalf > 0):
\*     ( giniLeft * left + giniRight * right ) / total
\* with giniImpurity( t, T ) = ( 2 t ( 1 - t / T ) ) / T.
giniTotal(node) ==
    LET left  == node.totalCountLeftHalf
        right == node.totalCount - node.totalCountLeftHalf
    IN  Rat(2 * node.trueCountLeftHalf * (left - node.trueCountLeftHalf) * right
                + 2 * node.trueCountRightHalf * (right - node.trueCountRightHalf) * left,
            left * right * node.totalCount)

\* giniTotal where totalCountRightHalf has wrapped below zero to a number r
\* just under 2^32: giniRight * r is 2 t ( 1 - t / r ), which is 2 t less a
\* part in a thousand million.  The value is this rational, less that part.
giniTotalWrapped(node) ==
    LET left == node.totalCountLeftHalf
    IN  Rat(2 * node.trueCountLeftHalf * (left - node.trueCountLeftHalf)
                + 2 * node.trueCountRightHalf * left,
            left * node.totalCount)

\* The leaf with the split of this visit saved as its best.
Saved(node, featureValue, gini) ==
    [node EXCEPT !.bestSplitFeature = node.currentFeature,
                 !.bestSplitValue = featureValue,
                 !.bestSplitGiniIndex = gini]

\* visitPoint( pointID, featureValue, label ): the leaves it can leave.
\* With no point in the right half giniRight is 0 / 0, not a number, and the
\* comparison fails.  With a wrapped right half the comparison goes as that
\* of the rationals, and either way where the rationals are equal.
visitPoint(node, featureValue, label) ==
    LET counted == Counted(node, label)
        right   == counted.totalCount - counted.totalCountLeftHalf
    IN  IF right = 0 THEN {counted}
        ELSE IF right > 0
        THEN {IF RatLess(giniTotal(counted), counted.bestSplitGiniIndex)
              THEN Saved(counted, featureValue, giniTotal(counted))
              ELSE counted}
        ELSE IF RatLess(giniTotalWrapped(counted), counted.bestSplitGiniIndex)
        THEN {Saved(counted, featureValue, giniTotalWrapped(counted))}
        ELSE IF RatEq(giniTotalWrapped(counted), counted.bestSplitGiniIndex)
        THEN {Saved(counted, featureValue, giniTotalWrapped(counted)), counted}
        ELSE {counted}

\* split(), on the root and so on every leaf: a leaf with m_trueCount ==
\* m_totalCount returns, any other leaf gets two new children.
RECURSIVE SplitFrom(_, _, _)
SplitFrom(nodes, id, last) ==
    IF id > last THEN nodes
    ELSE IF nodes[id].leftChild # 0 \/ nodes[id].trueCount = nodes[id].totalCount
         THEN SplitFrom(nodes, id + 1, last)
         ELSE SplitFrom([nodes EXCEPT ![id].splitValue = nodes[id].bestSplitValue,
                                      ![id].splitFeatureID = nodes[id].bestSplitFeature,
                                      ![id].leftChild = Len(nodes) + 1,
                                      ![id].rightChild = Len(nodes) + 2]
                            \o <<TrainingTreeNode, TrainingTreeNode>>,
                        id + 1, last)

LegacyInit ==
    /\ pc = "round"
    /\ input \in UNION {[dataPoints   : [1..(P * M) -> Values],
                         labels       : [1..P -> BOOLEAN],
                         featureCount : {M},
                         pointCount   : {P}] :
                           P \in 1..LegacyMaxPoints, M \in 1..LegacyMaxFeatures}
    /\ tree = [nodes |-> <<TrainingTreeNode>>, pointParents |-> [p \in 1..input.pointCount |-> 1]]
    /\ out = [op |-> "train", depth |-> 0, featureID |-> 0, position |-> 0]
    /\ twin = NoTree
    /\ classifier = NoClassifier
    /\ lft = LabelFrequencyTable(0)
    /\ lftOut = NoQuery
    /\ ensemble = NoEnsemble
    /\ callerTable = NoTable
    /\ workers = NoWorkers
    /\ jobQueue = EmptyQueue
    /\ earlier = NoCall

\* The head of a round: initializeOptimalSplitSearch and the registration
\* of all points.
StartRound ==
    /\ pc = "round"
    /\ out.depth < LIMIT
    /\ tree' = RegisterPoints([tree EXCEPT !.nodes = initializeOptimalSplitSearch(@)],
                              0, input)
    /\ out' = [op |-> "registerPoints", depth |-> out.depth, featureID |-> 0, position |-> 0]
    /\ pc' = "feature"
    /\ UNCHANGED <<input, twin, classifier, tableVars, ensembleVars>>

\* root.startFeatureTraversal( featureID )
StartFeature ==
    /\ pc = "feature"
    /\ out.featureID < input.featureCount
    /\ tree' = [tree EXCEPT !.nodes = startFeatureTraversal(@, out.featureID)]
    /\ out' = [out EXCEPT !.op = "startFeatureTraversal", !.position = 0]
    /\ pc' = "visit"
    /\ UNCHANGED <<input, twin, classifier, tableVars, ensembleVars>>

\* One iteration of the traversal of a feature: visitPoint on the parent of
\* the entry's point.
VisitPoint ==
    /\ pc = "visit"
    /\ out.position < input.pointCount
    /\ LET entry == LegacyFeatureIndex(input)[out.featureID + 1][out.position + 1]
           leaf  == tree.pointParents[entry.pointID + 1]
       IN  /\ \E visited \in visitPoint(tree.nodes[leaf], entry.featureValue, entry.label) :
                 tree' = [tree EXCEPT !.nodes[leaf] = visited]
           /\ out' = [out EXCEPT !.op = "visitPoint", !.position = @ + 1]
                         @@ [node |-> leaf]
    /\ UNCHANGED <<pc, input, twin, classifier, tableVars, ensembleVars>>

\* The traversal of a feature ends: ++featureID.
EndFeature ==
    /\ pc = "visit"
    /\ ~(out.position < input.pointCount)
    /\ out' = [out EXCEPT !.op = "endFeature", !.featureID = @ + 1]
    /\ pc' = "feature"
    /\ UNCHANGED <<input, tree, twin, classifier, tableVars, ensembleVars>>

\* root.split(), and ++depth.  The step keeps the tree it found.
SplitLeaves ==
    /\ pc = "feature"
    /\ ~(out.featureID < input.featureCount)
    /\ tree' = [tree EXCEPT !.nodes = SplitFrom(@, 1, Len(@))]
    /\ out' = [op |-> "split", depth |-> out.depth + 1, featureID |-> 0, position |-> 0]
    /\ earlier' = [op |-> "split", before |-> tree]
    /\ pc' = "round"
    /\ UNCHANGED <<input, twin, classifier, tableVars, ensemble, callerTable, workers,
                   jobQueue>>

\* The depth limit is reached: train() goes on to finalize.
EndOfTraining ==
    /\ pc = "round"
    /\ ~(out.depth < LIMIT)
    /\ pc' = "finalize"
    /\ UNCHANGED <<input, tree, twin, classifier, out, tableVars, ensembleVars>>

LegacyNext ==
    \/ StartRound
    \/ StartFeature
    \/ VisitPoint
    \/ EndFeature
    \/ SplitLeaves
    \/ EndOfTraining

SpecLegacy == LegacyInit /\ [][LegacyNext]_vars

\* The last step was root.split().
LeavesWereSplit == pc \in {"round", "finalize"} /\ earlier.op = "split"

\* C39: TrainingTreeNode::split() never splits a leaf that is completely
\* pure: a leaf whose registered points all carry the same label (all true
\* or all false) gets no children.
C39_PureLeafIsNotSplit ==
    LeavesWereSplit =>
        \A id \in 1..Len(earlier.before.nodes) :
            LET leaf == earlier.before.nodes[id]
            IN  (/\ leaf.leftChild = 0
                 /\ leaf.trueCount = leaf.totalCount \/ leaf.trueCount = 0)
                    => tree.nodes[id].leftChild = 0

\* What split() does: a leaf stays a leaf exactly if all its points are
\* labelled true (m_trueCount == m_totalCount, which also holds of a leaf
\* without points).
LeafStaysIfAllTrue ==
    LeavesWereSplit =>
        \A id \in 1..Len(earlier.before.nodes) :
            LET leaf == earlier.before.nodes[id]
            IN  leaf.leftChild = 0 =>
                    (tree.nodes[id].leftChild = 0 <=> leaf.trueCount = leaf.totalCount)

\* C40: at every visitPoint call the leaf's visited-point counter does not
\* exceed its registered point count (m_totalCountLeftHalf <= m_totalCount),
\* so m_totalCount - m_totalCountLeftHalf never underflows.
C40_VisitedWithinRegistered ==
    (pc = "visit" /\ out.op = "visitPoint") =>
        tree.nodes[out.node].totalCountLeftHalf <= tree.nodes[out.node].totalCount

\* What holds of the counter: nothing resets it, so it counts the visits of
\* the leaf since the leaf was created.  In the first round it is within the
\* registered count on the first feature and above it on every other.
VisitedWithinRegisteredOnFirstFeature ==
    (pc = "visit" /\ out.op = "visitPoint" /\ out.depth = 0) =>
        LET leaf == tree.nodes[out.node]
        IN  /\ leaf.totalCountLeftHalf = out.featureID * input.pointCount + out.position
            /\ leaf.totalCountLeftHalf <= leaf.totalCount <=> out.featureID = 0
=============================================================================
